---- MODULE Spec2Model ----
(***************************************************************************)
(* A model of arcanite's reading assembly core:                            *)
(*   TarotCard / TarotDeck                 (core/deck.py)                  *)
(*   SpreadRegistry, get_spread_registry   (core/spread.py)                *)
(*   AssembledContext.to_markdown          (core/models.py)                *)
(*   DeterministicAssembler                (reading/assembly.py)           *)
(*   ReadingEngine                         (reading/engine.py)             *)
(*                                                                         *)
(* Representation of Python values.                                        *)
(*  - A dotted path string is a sequence of tokens; the token "." is the   *)
(*    dot, every other token is a run of non-dot characters.  A key of the *)
(*    position-interpretation tree is such a run: a sequence of tokens     *)
(*    without ".", so "past" is <<"past">> and "" is << >>.                 *)
(*  - A node of the position-interpretation tree is tagged with its Python *)
(*    type: D(m) a dict, S(s) a str, L(l) a list.                          *)
(*  - The other dicts of a card (core_meanings, question_contexts, the     *)
(*    card itself) are records; an absent key is an absent field.          *)
(*  - card_relationships and its buckets are dicts that the code iterates: *)
(*    they are sequences of key/value pairs in insertion order.            *)
(*  - A relationship's interpretation text is a sequence of chunks, so     *)
(*    that str.startswith is computed and not assumed.                     *)
(*  - A set of str is the sequence of its elements in the order the set    *)
(*    iterates them, which the interpreter's str hash seed decides and     *)
(*    which differs from one process to the next.                          *)
(*  - None is the value None of an optional str or enum; an optional      *)
(*    pathlib.Path is P(s) or NoPath.                                      *)
(***************************************************************************)
EXTENDS Integers, Sequences, FiniteSets, TLC

VARIABLES
    deck_cards, \* TarotDeck._cards of the deck: the list of TarotCard._data
    deck,       \* TarotDeck._card_by_id of the assembler's deck: card_id -> TarotCard._data
    registry,   \* SpreadRegistry._spreads of the assembler's registry: spread_id -> SpreadDefinition
    reading,    \* the Reading handed to assemble
    args,       \* the arguments of the last assemble call, NoCall before the first
    repeated,   \* whether the last assemble (or create_reading) call had the arguments of the call before it
    out,        \* what the last assemble call returned or raised, NoResult before the first
    icall,      \* the arguments of the last get_interpretation call, NoCall before the first
    iout,       \* what the last get_interpretation call returned, NoResult before the first
    ecall,      \* the arguments of the last create_reading call, NoCreate before the first
    eout,       \* whether the last create_reading call returned or what it raised
    objects,    \* the SpreadRegistry objects of the process, in the order of their construction: each one's _spreads
    default_registry,          \* spread._default_registry: NoObject for None, or the place of the object in objects
    rcall,      \* the arguments of the last get_spread_registry call of a caller, NoLookup before the first
    rout,       \* what that call returned or raised, NoResult before the first
    assembler_spread_registry, \* DeterministicAssembler._spread_registry, NoObject while no assembler is constructed
    engine_spread_registry     \* ReadingEngine._spread_registry, NoObject while no engine is constructed

registry_state ==
    <<objects, default_registry, rcall, rout, assembler_spread_registry, engine_spread_registry>>
vars == <<deck_cards, deck, registry, reading, args, repeated, out, icall, iout, ecall, eout, objects, default_registry, rcall, rout, assembler_spread_registry, engine_spread_registry>>

None == "<None>"

(***************************************************************************)
(* Bounds of the model.                                                    *)
(***************************************************************************)
MaxDraw == 3
MaxPathLen == 5

(***************************************************************************)
(* Enumerations of core/models.py.                                         *)
(***************************************************************************)
UPRIGHT == "upright"
REVERSED == "reversed"
Orientation == {UPRIGHT, REVERSED}
GENERAL == "general"
QuestionType == {"love", "career", "spiritual", "financial", "health", GENERAL}
RelationshipType ==
    {"amplifies", "challenges", "clarifies", "similar_energy", "opposite_energy",
     "learning_sequence"}

(***************************************************************************)
(* Python values.                                                          *)
(***************************************************************************)
D(m) == [ty |-> "dict", kv |-> m]
S(s) == [ty |-> "str", v |-> s]
L(l) == [ty |-> "list", v |-> l]
P(s) == [ty |-> "path", v |-> s]
NoPath == [ty |-> "NoneType", v |-> ""]
K(s) == <<s>>
EmptyDict == <<>>

\* dict.get(key, default) on a record or function
Get(d, k, default) == IF k \in DOMAIN d THEN d[k] ELSE default

\* dict.get(key, default) on a dict node of the position tree; the value untagged
NodeGet(n, k, default) == IF k \in DOMAIN n.kv THEN n.kv[k].v ELSE default

RECURSIVE Concat(_)
Concat(ss) == IF ss = <<>> THEN <<>> ELSE Head(ss) \o Concat(Tail(ss))

\* str.startswith over sequences of chunks
StartsWith(s, prefix) ==
    /\ Len(prefix) <= Len(s)
    /\ SubSeq(s, 1, Len(prefix)) = prefix

\* str.split("."): the runs between the dots, empty runs kept
RECURSIVE Split(_)
Split(s) ==
    IF \A i \in 1..Len(s) : s[i] # "."
    THEN <<s>>
    ELSE LET i == CHOOSE j \in 1..Len(s) :
                    /\ s[j] = "."
                    /\ \A k \in 1..(j - 1) : s[k] # "."
         IN <<SubSeq(s, 1, i - 1)>> \o Split(SubSeq(s, i + 1, Len(s)))

(***************************************************************************)
(* Identifiers.  Python compares two str by code point; IdChars gives the  *)
(* code points of the card and spread identifiers of the model.            *)
(***************************************************************************)
IdChars ==
    [cups |-> <<99, 117, 112, 115>>,
     fool |-> <<102, 111, 111, 108>>,
     mage |-> <<109, 97, 103, 101>>,
     moon |-> <<109, 111, 111, 110>>,
     pair |-> <<112, 97, 105, 114>>,
     single_card |-> <<115, 105, 110, 103, 108, 101, 95, 99, 97, 114, 100>>,
     three_card |-> <<116, 104, 114, 101, 101, 95, 99, 97, 114, 100>>]
KnownIds == {"cups", "fool", "mage"}
UnknownId == "moon"

\* str.__lt__: lexicographic order of the code points
RECURSIVE LexLess(_, _)
LexLess(s, t) ==
    IF t = <<>> THEN FALSE
    ELSE IF s = <<>> THEN TRUE
    ELSE IF Head(s) # Head(t) THEN Head(s) < Head(t)
    ELSE LexLess(Tail(s), Tail(t))

StrLess(a, b) == LexLess(IdChars[a], IdChars[b])

\* set(...) of str: the elements, in the order that the hash seed gives them
HashSeeds == {"seed a", "seed b"}
RECURSIVE SetOf(_, _)
SetOf(elements, seed) ==
    IF elements = {} THEN <<>>
    ELSE LET first == CHOOSE x \in elements : \A y \in elements \ {x} :
                        IF seed = "seed a" THEN StrLess(x, y) ELSE StrLess(y, x)
         IN <<first>> \o SetOf(elements \ {first}, seed)

\* x in set
InSet(x, set) == \E i \in 1..Len(set) : set[i] = x

\* sorted(...) of str
Sorted(elements) == SetOf(elements, "seed a")

\* sep.join(l), as a sequence of chunks
RECURSIVE Join(_, _)
Join(sep, l) ==
    IF l = <<>> THEN <<>>
    ELSE IF Len(l) = 1 THEN l
    ELSE <<Head(l), sep>> \o Join(sep, Tail(l))

(***************************************************************************)
(* Card data, as json.load gives it to TarotCard.__init__.                 *)
(***************************************************************************)
Leaf(up, rev, kws) ==
    D(K("upright") :> S(up) @@ K("reversed") :> S(rev) @@ K("keywords") :> L(kws))
Sentinel == <<"[TO BE WRITTEN">>
Item(k, v) == [key |-> k, value |-> v]

CupsA ==
    [card_id |-> "cups",
     card_name |-> "Ace of Cups",
     position_interpretations |->
        D(K("temporal_positions") :>
            D(K("past") :> Leaf("cups past up", "cups past rev", <<"memory">>)
              @@ K("present") :> Leaf("cups present up", "cups present rev", <<"feeling">>)
              @@ K("future") :> D(K("upright") :> S("cups future up")))),
     core_meanings |->
        [upright |-> [essence |-> "cups core up", keywords |-> <<"love", "flow">>],
         reversed |-> [essence |-> "cups core rev", keywords |-> <<"blocked">>]],
     question_contexts |->
        [love |-> [upright |-> "cups love up", reversed |-> "cups love rev",
                   keywords |-> <<"romance">>],
         general |-> [upright |-> "cups general up", reversed |-> "cups general rev",
                      keywords |-> <<"anything">>]],
     card_relationships |->
        <<Item("amplifies",
               <<Item("fool", [interpretation |-> <<"Cups feeds the Fool">>,
                               keywords |-> <<"trust">>]),
                 Item("mage", [interpretation |-> Sentinel \o <<": cups + mage]">>,
                               keywords |-> <<"stub">>])>>),
          Item("mirrors",
               <<Item("fool", [interpretation |-> <<"Cups mirrors the Fool">>,
                               keywords |-> <<"mirror">>])>>),
          Item("clarifies",
               <<Item("cups", [interpretation |-> <<"Cups clarifies itself">>,
                               keywords |-> <<"self">>]),
                 Item("mage", [keywords |-> <<"untold">>])>>),
          Item("challenges",
               <<Item("mage", [interpretation |-> <<"Cups tests the Magician">>])>>),
          Item("learning_sequence",
               <<Item("fool", [interpretation |-> <<"See note ">> \o Sentinel,
                               keywords |-> <<"path">>])>>)>>]

FoolA ==
    [card_id |-> "fool",
     card_name |-> "The Fool",
     position_interpretations |->
        D(K("advice") :> Leaf("fool advice up", "fool advice rev", <<"leap">>)),
     core_meanings |->
        [upright |-> [essence |-> "fool core up", keywords |-> <<"beginnings">>],
         reversed |-> [essence |-> "fool core rev"]],
     question_contexts |->
        [career |-> [upright |-> "fool career up", keywords |-> <<"risk">>]],
     card_relationships |->
        <<Item("challenges",
               <<Item("cups", [interpretation |-> <<"The Fool unsettles Cups">>,
                               keywords |-> <<"doubt">>])>>),
          Item("amplifies",
               <<Item("mage", [interpretation |-> <<"The Fool fuels the Magician">>,
                               keywords |-> <<"spark">>]),
                 Item("cups", [interpretation |-> <<"The Fool fills Cups">>,
                               keywords |-> <<"joy">>])>>),
          Item("similar_energy",
               <<Item("mage", [interpretation |-> <<>>, keywords |-> <<"kin">>])>>)>>]

MageA ==
    [card_id |-> "mage",
     card_name |-> "The Magician",
     position_interpretations |->
        D(K("temporal_positions") :>
            D(K("past") :> S("mage past as plain text")
              @@ K("present") :> Leaf("mage present up", "mage present rev", <<"will">>))),
     card_relationships |->
        <<Item("opposite_energy",
               <<Item("cups", [interpretation |-> <<"The Magician opposes Cups">>,
                               keywords |-> <<"tension">>])>>)>>]

CupsB ==
    [card_id |-> "cups",
     card_name |-> "Ace of Cups",
     core_meanings |->
        [upright |-> [essence |-> "cups core up", keywords |-> <<"love">>]],
     question_contexts |->
        [career |-> [upright |-> "cups career up", reversed |-> "cups career rev"]]]

FoolB ==
    [card_id |-> "fool",
     card_name |-> "The Fool",
     position_interpretations |->
        D(K("temporal_positions") :>
            D(K("past") :> Leaf("fool past up", "fool past rev", <<"origin">>)
              @@ K("present") :> Leaf("fool present up", "fool present rev", <<"now">>)
              @@ K("future") :> Leaf("fool future up", "fool future rev", <<"road">>))),
     core_meanings |-> EmptyDict,
     question_contexts |->
        [love |-> [reversed |-> "fool love rev", keywords |-> <<"crush">>]],
     card_relationships |->
        <<Item("clarifies",
               <<Item("mage", [interpretation |-> <<"The Fool explains the Magician">>,
                               keywords |-> <<"insight">>]),
                 Item("moon", [interpretation |-> <<"The Fool walks under the Moon">>,
                               keywords |-> <<"night">>])>>),
          Item("challenges",
               <<Item("mage", [interpretation |-> Sentinel, keywords |-> <<>>])>>)>>]

MageB ==
    [card_id |-> "mage",
     card_name |-> "The Magician",
     position_interpretations |-> D(K("temporal_positions") :> S("not authored")),
     core_meanings |->
        [upright |-> [essence |-> "mage core up", keywords |-> <<"skill">>],
         reversed |-> [essence |-> "mage core rev", keywords |-> <<"trickery">>]],
     question_contexts |-> EmptyDict,
     card_relationships |-> EmptyDict]

\* TarotDeck.__init__: _card_by_id
CardById(cards) ==
    [id \in {cards[i].card_id : i \in 1..Len(cards)} |->
        LET i == CHOOSE j \in 1..Len(cards) :
                    /\ cards[j].card_id = id
                    /\ \A k \in (j + 1)..Len(cards) : cards[k].card_id # id
        IN cards[i]]

\* card data whose core_meanings hold a str where a dict is expected
CupsC ==
    [CupsA EXCEPT !.core_meanings =
        [upright |-> S("cups core as plain text"),
         reversed |-> [essence |-> "cups core rev", keywords |-> <<"blocked">>]]]
FoolC == [FoolA EXCEPT !.core_meanings = S("not authored")]

CardsA == <<CupsA, FoolA, MageA>>
CardsB == <<CupsB, FoolB, MageB>>
CardsC == <<CupsC, FoolC, MageB>>
DeckA == CardById(CardsA)
DeckB == CardById(CardsB)
DeckC == CardById(CardsC)
Decks == {DeckA, DeckB}

(***************************************************************************)
(* TarotCard (core/deck.py); data is TarotCard._data.                      *)
(***************************************************************************)
\* faulty variant: the orientation is ignored
OrientationKeyUprightOnly(reversed) == "upright"

OrientationKey(reversed) == IF reversed THEN "reversed" ELSE "upright"

\* a value of the core_meanings tree is a dict unless it is tagged as a str: S(...)
IsDict(x) == "ty" \notin DOMAIN x

\* x.get(...) on a str
AttributeError == [status |-> "raised", error |-> "AttributeError",
                   message |-> <<"'str' object has no attribute 'get'">>]

\* faulty variant: a meaning that is not authored is borrowed from the upright one
GetCoreMeaningFallbackBorrowing(data, reversed) ==
    LET core == Get(data, "core_meanings", EmptyDict)
    IN IF ~IsDict(core) THEN AttributeError
       ELSE LET meaning == Get(core, OrientationKey(reversed), Get(core, "upright", EmptyDict))
            IN IF ~IsDict(meaning) THEN AttributeError
               ELSE [interpretation |-> Get(meaning, "essence", ""),
                     keywords |-> Get(meaning, "keywords", <<>>),
                     raw |-> meaning]

\* TarotCard._get_core_meaning_fallback
GetCoreMeaningFallback(data, reversed) ==
    LET core == Get(data, "core_meanings", EmptyDict)
    IN IF ~IsDict(core) THEN AttributeError
       ELSE LET meaning == Get(core, OrientationKey(reversed), EmptyDict)
            IN IF ~IsDict(meaning) THEN AttributeError
               ELSE [interpretation |-> Get(meaning, "essence", ""),
                     keywords |-> Get(meaning, "keywords", <<>>),
                     raw |-> meaning]

\* the loop of get_interpretation: the node the parts lead to, or the place the walk stops
RECURSIVE Walk(_, _, _)
Walk(current, parts, i) ==
    IF i > Len(parts)
    THEN [found |-> TRUE, node |-> current]
    ELSE IF current.ty = "dict" /\ parts[i] \in DOMAIN current.kv
         THEN Walk(current.kv[parts[i]], parts, i + 1)
         ELSE [found |-> FALSE, node |-> current]

\* faulty variant: a missing segment gives an empty result, not the core meaning
GetInterpretationWithoutFallback(data, rag_mapping, reversed) ==
    LET position_interps == Get(data, "position_interpretations", D(EmptyDict))
        w == Walk(position_interps, Split(rag_mapping), 1)
    IN IF w.found /\ w.node.ty = "dict"
       THEN [interpretation |-> NodeGet(w.node, K(OrientationKey(reversed)), ""),
             keywords |-> NodeGet(w.node, K("keywords"), <<>>),
             raw |-> w.node]
       ELSE [interpretation |-> "", keywords |-> <<>>, raw |-> EmptyDict]

\* TarotCard.get_interpretation
GetInterpretation(data, rag_mapping, reversed) ==
    LET position_interps == Get(data, "position_interpretations", D(EmptyDict))
        w == Walk(position_interps, Split(rag_mapping), 1)
    IN IF ~w.found
       THEN GetCoreMeaningFallback(data, reversed)
       ELSE IF w.node.ty = "dict"
            THEN [interpretation |-> NodeGet(w.node, K(OrientationKey(reversed)), ""),
                  keywords |-> NodeGet(w.node, K("keywords"), <<>>),
                  raw |-> w.node]
            ELSE GetCoreMeaningFallback(data, reversed)

\* faulty variant: a category that is not authored is answered from the core meaning
GetQuestionContextWithCoreFallback(data, question_type, reversed) ==
    LET contexts == Get(data, "question_contexts", EmptyDict)
    IN IF question_type \in DOMAIN contexts
       THEN [interpretation |-> Get(contexts[question_type], OrientationKey(reversed), ""),
             keywords |-> Get(contexts[question_type], "keywords", <<>>),
             raw |-> contexts[question_type]]
       ELSE GetCoreMeaningFallback(data, reversed)

\* TarotCard.get_question_context
GetQuestionContext(data, question_type, reversed) ==
    LET contexts == Get(data, "question_contexts", EmptyDict)
        context == Get(contexts, question_type, EmptyDict)
    IN [interpretation |-> Get(context, OrientationKey(reversed), ""),
        keywords |-> Get(context, "keywords", <<>>),
        raw |-> context]

\* faulty variant: the upright meaning is given for either orientation
GetCoreMeaningOfUpright(data, reversed) ==
    LET core == Get(data, "core_meanings", EmptyDict)
    IN IF ~IsDict(core) THEN AttributeError
       ELSE Get(core, "upright", EmptyDict)

\* TarotCard.get_core_meaning
GetCoreMeaning(data, reversed) ==
    LET core == Get(data, "core_meanings", EmptyDict)
    IN IF ~IsDict(core) THEN AttributeError
       ELSE Get(core, OrientationKey(reversed), EmptyDict)

\* TarotCard.get_relationships
GetRelationships(data) == Get(data, "card_relationships", EmptyDict)

(***************************************************************************)
(* TarotDeck and SpreadRegistry lookups.                                   *)
(***************************************************************************)
Raise(error, message) == [status |-> "raised", error |-> error, message |-> message]

\* TarotDeck.get_card
GetCard(dk, card_id) ==
    IF card_id \notin DOMAIN dk
    THEN Raise("KeyError", <<"Card not found: ", card_id>>)
    ELSE [status |-> "ok", card |-> dk[card_id]]

\* SpreadRegistry.load_spread
LoadSpread(reg, spread_id) ==
    IF spread_id \notin DOMAIN reg
    THEN Raise("KeyError", <<"Spread not found: ", spread_id, ". Available: ">>
                            \o Join(", ", Sorted(DOMAIN reg)))
    ELSE [status |-> "ok", spread |-> reg[spread_id]]

\* list[int]: an index from -len to len - 1, counted from the end when negative
ListIndexOk(l, idx) == -Len(l) <= idx /\ idx < Len(l)
ListGet(l, idx) == IF idx >= 0 THEN l[idx + 1] ELSE l[Len(l) + idx + 1]

(***************************************************************************)
(* The spreads of the registry, as SpreadRegistry.from_config parses them. *)
(***************************************************************************)
Position(name, short, detailed, mapping) ==
    [name |-> name, short_description |-> short, detailed_description |-> detailed,
     rag_mapping |-> mapping]

ThreeCard ==
    [id |-> "three_card",
     name |-> "Three Card Spread",
     positions |->
        <<Position("Past", "What lies behind", "The past in detail",
                   <<"temporal_positions", ".", "past">>),
          Position("Present", "Where you stand", "",
                   <<"temporal_positions", ".", "present">>),
          Position("Future", "What lies ahead", "The future in detail",
                   <<"temporal_positions", ".", "future">>)>>]

SingleCard ==
    [id |-> "single_card",
     name |-> "Single Card",
     positions |-> <<Position("Advice", "Guidance for today", "", <<"advice">>)>>]

DefaultSpreads == [three_card |-> ThreeCard, single_card |-> SingleCard]
UnknownSpreadId == "no_such_spread"

\* the spreads of a configuration of the caller's own
Pair ==
    [id |-> "pair",
     name |-> "You and the Other",
     positions |->
        <<Position("You", "Where you stand", "", <<"temporal_positions", ".", "present">>),
          Position("The Other", "Who faces you", "", <<"advice">>)>>]
SingleCardWithObstacle ==
    [id |-> "single_card",
     name |-> "Card and Obstacle",
     positions |->
        <<Position("Focus", "What matters", "", <<"advice">>),
          Position("Obstacle", "What is in the way", "",
                   <<"temporal_positions", ".", "present">>)>>]
CustomSpreads == [pair |-> Pair, single_card |-> SingleCardWithObstacle]

\* SpreadRegistry.__len__, which is also the truth value of a registry
RegistryLen(spreads) == Cardinality(DOMAIN spreads)

\* the configuration files on disk: the packaged <system>-spreads.json exists
\* for tarot only, and the caller has a file custom.json
ConfigPath(config_path, system) ==
    IF config_path = None THEN <<"spreads/", system, "-spreads.json">> ELSE <<config_path>>
ConfigFiles ==
    (<<"spreads/", "tarot", "-spreads.json">> :> DefaultSpreads)
    @@ (<<"custom.json">> :> CustomSpreads)

\* SpreadRegistry.from_config: the spreads of the file, or the failure of open()
FromConfig(config_path, system) ==
    LET path == ConfigPath(config_path, system)
    IN IF path \in DOMAIN ConfigFiles
       THEN [status |-> "ok", spreads |-> ConfigFiles[path]]
       ELSE Raise("FileNotFoundError", <<"[Errno 2] No such file or directory: ">> \o path)

NoObject == 0
MaxObjects == 4

\* faulty variant: a config_path that is given is loaded even when a registry is cached
GetSpreadRegistryHonouringPath(config_path, reload, system, cached, objs) ==
    IF cached = NoObject \/ reload \/ config_path # None
    THEN LET loaded == FromConfig(config_path, system)
         IN IF loaded.status # "ok"
            THEN [returned |-> loaded, default_registry |-> cached, objects |-> objs]
            ELSE [returned |-> [status |-> "ok", object |-> Len(objs) + 1],
                  default_registry |-> Len(objs) + 1,
                  objects |-> Append(objs, loaded.spreads)]
    ELSE [returned |-> [status |-> "ok", object |-> cached],
          default_registry |-> cached, objects |-> objs]

\* get_spread_registry, with cached the _default_registry and objs the objects
\* before the call: what it returns or raises, and both after the call
GetSpreadRegistryResult(config_path, reload, system, cached, objs) ==
    IF cached = NoObject \/ reload
    THEN LET loaded == FromConfig(config_path, system)
         IN IF loaded.status # "ok"
            THEN [returned |-> loaded, default_registry |-> cached, objects |-> objs]
            ELSE [returned |-> [status |-> "ok", object |-> Len(objs) + 1],
                  default_registry |-> Len(objs) + 1,
                  objects |-> Append(objs, loaded.spreads)]
    ELSE [returned |-> [status |-> "ok", object |-> cached],
          default_registry |-> cached, objects |-> objs]

(***************************************************************************)
(* DeterministicAssembler (reading/assembly.py).                           *)
(***************************************************************************)
\* faulty variant: the reading's stored category wins over the argument
NormalizeQuestionTypeStoredFirst(question_type, rd) ==
    IF rd.question_type # None
    THEN [status |-> "ok", value |-> rd.question_type]
    ELSE IF question_type.kind \in {"str", "enum"}
         THEN IF question_type.value \in QuestionType
              THEN [status |-> "ok", value |-> question_type.value]
              ELSE Raise("ValueError", <<"'", question_type.value, "' is not a valid QuestionType">>)
         ELSE [status |-> "ok", value |-> None]

\* assemble, lines 53-57: the effective category; a QuestionType is a str, so
\* an enum member goes through QuestionType(...) as well and comes back unchanged
NormalizeQuestionType(question_type, rd) ==
    IF question_type.kind \in {"str", "enum"}
    THEN IF question_type.value \in QuestionType
         THEN [status |-> "ok", value |-> question_type.value]
         ELSE Raise("ValueError", <<"'", question_type.value, "' is not a valid QuestionType">>)
    ELSE [status |-> "ok", value |-> rd.question_type]

\* faulty variant: "general" is looked up like any other category
QuestionFieldsForAnyCategory(card, question_type, is_reversed) ==
    IF question_type # None
    THEN LET qc_data == GetQuestionContext(card, question_type, is_reversed)
         IN [question_context |-> qc_data.interpretation,
             question_keywords |-> qc_data.keywords]
    ELSE [question_context |-> None, question_keywords |-> <<>>]

\* faulty variant: without a category the card's "general" context is looked up
QuestionFieldsDefaultingToGeneral(card, question_type, is_reversed) ==
    LET qc_data == GetQuestionContext(card,
                                      IF question_type = None THEN GENERAL
                                      ELSE question_type,
                                      is_reversed)
    IN IF question_type # GENERAL
       THEN [question_context |-> qc_data.interpretation,
             question_keywords |-> qc_data.keywords]
       ELSE [question_context |-> None, question_keywords |-> <<>>]

\* assemble, lines 74-80: the question fields of one card
QuestionFields(card, question_type, is_reversed) ==
    IF question_type # None /\ question_type # GENERAL
    THEN LET qc_data == GetQuestionContext(card, question_type, is_reversed)
         IN [question_context |-> qc_data.interpretation,
             question_keywords |-> qc_data.keywords]
    ELSE [question_context |-> None, question_keywords |-> <<>>]

\* position.detailed_description or position.short_description
PositionDescription(position) ==
    IF position.detailed_description # ""
    THEN position.detailed_description
    ELSE position.short_description

\* assemble, lines 85-101: the CardInterpretation of one drawn card
CardInterpretation(drawn_card, position, interp_data, q, core_meaning) ==
    [card_id |-> drawn_card.card_id,
     card_name |-> drawn_card.card_name,
     position_index |-> drawn_card.position_index,
     position_name |-> position.name,
     position_description |-> PositionDescription(position),
     orientation |-> drawn_card.orientation,
     position_interpretation |-> interp_data.interpretation,
     position_keywords |-> interp_data.keywords,
     question_context |-> q.question_context,
     question_keywords |-> q.question_keywords,
     core_essence |-> Get(core_meaning, "essence", ""),
     core_keywords |-> Get(core_meaning, "keywords", <<>>),
     image_path |-> drawn_card.image_path]

\* assemble, lines 104-119: the raw echo of one drawn card
RawCardData(ci, card) ==
    [card_id |-> ci.card_id,
     card_name |-> ci.card_name,
     position_index |-> ci.position_index,
     position_name |-> ci.position_name,
     position_description |-> ci.position_description,
     orientation |-> ci.orientation,
     position_interpretation |-> ci.position_interpretation,
     position_keywords |-> ci.position_keywords,
     question_context |-> ci.question_context,
     question_keywords |-> ci.question_keywords,
     core_essence |-> ci.core_essence,
     core_keywords |-> ci.core_keywords,
     image_path |-> IF ci.image_path.ty = "path" THEN ci.image_path.v ELSE None,
     raw_card_data |-> card]

\* assemble, lines 63-119: the body of the loop for one drawn card
InterpretCard(drawn_card, dk, spread, question_type) ==
    LET got == GetCard(dk, drawn_card.card_id)
    IN IF got.status # "ok" THEN got
       ELSE IF ~ListIndexOk(spread.positions, drawn_card.position_index)
            THEN Raise("IndexError", <<"list index out of range">>)
            ELSE LET card == got.card
                     position == ListGet(spread.positions, drawn_card.position_index)
                     is_reversed == drawn_card.orientation = REVERSED
                     interp_data ==
                        GetInterpretation(card, position.rag_mapping, is_reversed)
                     q == QuestionFields(card, question_type, is_reversed)
                     core_meaning == GetCoreMeaning(card, is_reversed)
                     ci == CardInterpretation(drawn_card, position, interp_data, q,
                                              core_meaning)
                 IN IF "error" \in DOMAIN interp_data THEN interp_data
                    ELSE IF "error" \in DOMAIN core_meaning THEN core_meaning
                    ELSE IF ~IsDict(core_meaning) THEN AttributeError
                    ELSE [status |-> "ok", interpretation |-> ci,
                          raw |-> RawCardData(ci, card)]

\* faulty variant: each interpretation is put in front of the earlier ones
RECURSIVE AssembleCardsLastFirst(_, _, _, _, _, _)
AssembleCardsLastFirst(drawn_cards, dk, spread, question_type, card_interpretations, raw_cards_data) ==
    IF drawn_cards = <<>>
    THEN [status |-> "ok", card_interpretations |-> card_interpretations,
          raw_cards_data |-> raw_cards_data]
    ELSE LET r == InterpretCard(Head(drawn_cards), dk, spread, question_type)
         IN IF r.status # "ok" THEN r
            ELSE AssembleCardsLastFirst(Tail(drawn_cards), dk, spread, question_type,
                                        <<r.interpretation>> \o card_interpretations,
                                        <<r.raw>> \o raw_cards_data)

\* faulty variant: a drawn card that the deck does not hold is passed over
RECURSIVE AssembleCardsSkippingUnknown(_, _, _, _, _, _)
AssembleCardsSkippingUnknown(drawn_cards, dk, spread, question_type, card_interpretations, raw_cards_data) ==
    IF drawn_cards = <<>>
    THEN [status |-> "ok", card_interpretations |-> card_interpretations,
          raw_cards_data |-> raw_cards_data]
    ELSE LET r == InterpretCard(Head(drawn_cards), dk, spread, question_type)
         IN IF r.status # "ok" /\ r.error = "KeyError"
            THEN AssembleCardsSkippingUnknown(Tail(drawn_cards), dk, spread,
                                              question_type, card_interpretations,
                                              raw_cards_data)
            ELSE IF r.status # "ok" THEN r
            ELSE AssembleCardsSkippingUnknown(Tail(drawn_cards), dk, spread,
                                              question_type,
                                              Append(card_interpretations, r.interpretation),
                                              Append(raw_cards_data, r.raw))

\* assemble, lines 60-119: the loop over reading.drawn_cards, left at the first raise
RECURSIVE AssembleCards(_, _, _, _, _, _)
AssembleCards(drawn_cards, dk, spread, question_type, card_interpretations, raw_cards_data) ==
    IF drawn_cards = <<>>
    THEN [status |-> "ok", card_interpretations |-> card_interpretations,
          raw_cards_data |-> raw_cards_data]
    ELSE LET r == InterpretCard(Head(drawn_cards), dk, spread, question_type)
         IN IF r.status # "ok" THEN r
            ELSE AssembleCards(Tail(drawn_cards), dk, spread, question_type,
                               Append(card_interpretations, r.interpretation),
                               Append(raw_cards_data, r.raw))

\* _find_relationships, line 143
DrawnIds(rd, seed) ==
    SetOf({rd.drawn_cards[i].card_id : i \in 1..Len(rd.drawn_cards)}, seed)

\* faulty variant: placeholder texts are not filtered
MatchesOfEntryWithPlaceholders(drawn_card, rel_type, other_card_id, rel_data, drawn_ids, dk) ==
    IF InSet(other_card_id, drawn_ids) /\ other_card_id # drawn_card.card_id
    THEN LET other_card == GetCard(dk, other_card_id).card
             interpretation == Get(rel_data, "interpretation", <<>>)
         IN IF StrLess(drawn_card.card_id, other_card_id) /\ interpretation # <<>>
            THEN <<[card1_id |-> drawn_card.card_id,
                    card1_name |-> drawn_card.card_name,
                    card2_id |-> other_card_id,
                    card2_name |-> other_card.card_name,
                    relationship_type |-> rel_type,
                    interpretation |-> interpretation,
                    keywords |-> Get(rel_data, "keywords", <<>>)]>>
            ELSE <<>>
    ELSE <<>>

\* faulty variant: a pair is reported from either of its cards
MatchesOfEntryFromEitherCard(drawn_card, rel_type, other_card_id, rel_data, drawn_ids, dk) ==
    IF InSet(other_card_id, drawn_ids) /\ other_card_id # drawn_card.card_id
    THEN LET other_card == GetCard(dk, other_card_id).card
             interpretation == Get(rel_data, "interpretation", <<>>)
         IN IF interpretation # <<>> /\ ~StartsWith(interpretation, Sentinel)
            THEN <<[card1_id |-> drawn_card.card_id,
                    card1_name |-> drawn_card.card_name,
                    card2_id |-> other_card_id,
                    card2_name |-> other_card.card_name,
                    relationship_type |-> rel_type,
                    interpretation |-> interpretation,
                    keywords |-> Get(rel_data, "keywords", <<>>)]>>
            ELSE <<>>
    ELSE <<>>

\* faulty variant: an entry without interpretation text is kept
MatchesOfEntryKeepingEmptyText(drawn_card, rel_type, other_card_id, rel_data, drawn_ids, dk) ==
    IF InSet(other_card_id, drawn_ids) /\ other_card_id # drawn_card.card_id
    THEN LET other_card == GetCard(dk, other_card_id).card
             interpretation == Get(rel_data, "interpretation", <<>>)
         IN IF /\ StrLess(drawn_card.card_id, other_card_id)
               /\ ~StartsWith(interpretation, Sentinel)
            THEN <<[card1_id |-> drawn_card.card_id,
                    card1_name |-> drawn_card.card_name,
                    card2_id |-> other_card_id,
                    card2_name |-> other_card.card_name,
                    relationship_type |-> rel_type,
                    interpretation |-> interpretation,
                    keywords |-> Get(rel_data, "keywords", <<>>)]>>
            ELSE <<>>
    ELSE <<>>

\* _find_relationships, lines 156-178: what one entry of a bucket adds
MatchesOfEntry(drawn_card, rel_type, other_card_id, rel_data, drawn_ids, dk) ==
    IF InSet(other_card_id, drawn_ids) /\ other_card_id # drawn_card.card_id
    THEN LET other_card == GetCard(dk, other_card_id).card
             interpretation == Get(rel_data, "interpretation", <<>>)
         IN IF /\ StrLess(drawn_card.card_id, other_card_id)
               /\ interpretation # <<>>
               /\ ~StartsWith(interpretation, Sentinel)
            THEN <<[card1_id |-> drawn_card.card_id,
                    card1_name |-> drawn_card.card_name,
                    card2_id |-> other_card_id,
                    card2_name |-> other_card.card_name,
                    relationship_type |-> rel_type,
                    interpretation |-> interpretation,
                    keywords |-> Get(rel_data, "keywords", <<>>)]>>
            ELSE <<>>
    ELSE <<>>

\* faulty variant: a bucket of any type is scanned
MatchesOfBucketOfAnyType(drawn_card, rel_type_str, related_cards, drawn_ids, dk) ==
    Concat([j \in 1..Len(related_cards) |->
               MatchesOfEntry(drawn_card, rel_type_str, related_cards[j].key,
                              related_cards[j].value, drawn_ids, dk)])

\* _find_relationships, lines 150-178: what one relationship type of a card adds
MatchesOfBucket(drawn_card, rel_type_str, related_cards, drawn_ids, dk) ==
    IF rel_type_str \notin RelationshipType
    THEN <<>>
    ELSE Concat([j \in 1..Len(related_cards) |->
                    MatchesOfEntry(drawn_card, rel_type_str, related_cards[j].key,
                                   related_cards[j].value, drawn_ids, dk)])

\* _find_relationships, lines 145-178: what one drawn card adds
MatchesOfCard(drawn_card, drawn_ids, dk) ==
    LET card_relationships == GetRelationships(GetCard(dk, drawn_card.card_id).card)
    IN Concat([k \in 1..Len(card_relationships) |->
                  MatchesOfBucket(drawn_card, card_relationships[k].key,
                                  card_relationships[k].value, drawn_ids, dk)])

\* faulty variant: the scan goes over the set of drawn ids, not over the list
FindRelationshipsOverIdSet(rd, dk, seed) ==
    LET drawn_ids == DrawnIds(rd, seed)
        first(id) == CHOOSE i \in 1..Len(rd.drawn_cards) :
                        /\ rd.drawn_cards[i].card_id = id
                        /\ \A j \in 1..(i - 1) : rd.drawn_cards[j].card_id # id
    IN Concat([k \in 1..Len(drawn_ids) |->
                  MatchesOfCard(rd.drawn_cards[first(drawn_ids[k])], drawn_ids, dk)])

\* DeterministicAssembler._find_relationships
FindRelationships(rd, dk, seed) ==
    Concat([i \in 1..Len(rd.drawn_cards) |->
               MatchesOfCard(rd.drawn_cards[i], DrawnIds(rd, seed), dk)])

\* faulty variant: the relationship scan runs whatever include_relationships says
AssembleResultAlwaysScanning(rd, question_type, include_relationships, dk, reg, seed) ==
    LET loaded == LoadSpread(reg, rd.spread_id)
        qt == NormalizeQuestionType(question_type, rd)
    IN IF loaded.status # "ok" THEN loaded
       ELSE IF qt.status # "ok" THEN qt
       ELSE LET cards == AssembleCards(rd.drawn_cards, dk, loaded.spread, qt.value,
                                       <<>>, <<>>)
            IN IF cards.status # "ok" THEN cards
               ELSE [status |-> "ok",
                     reading_id |-> rd.id,
                     spread_name |-> rd.spread_name,
                     question |-> rd.question,
                     question_type |-> qt.value,
                     card_interpretations |-> cards.card_interpretations,
                     relationships |-> FindRelationships(rd, dk, seed),
                     raw_cards_data |-> cards.raw_cards_data]

\* DeterministicAssembler.assemble
AssembleResult(rd, question_type, include_relationships, dk, reg, seed) ==
    LET loaded == LoadSpread(reg, rd.spread_id)
        qt == NormalizeQuestionType(question_type, rd)
    IN IF loaded.status # "ok" THEN loaded
       ELSE IF qt.status # "ok" THEN qt
       ELSE LET cards == AssembleCards(rd.drawn_cards, dk, loaded.spread, qt.value,
                                       <<>>, <<>>)
            IN IF cards.status # "ok" THEN cards
               ELSE [status |-> "ok",
                     reading_id |-> rd.id,
                     spread_name |-> rd.spread_name,
                     question |-> rd.question,
                     question_type |-> qt.value,
                     card_interpretations |-> cards.card_interpretations,
                     relationships |->
                        IF include_relationships THEN FindRelationships(rd, dk, seed)
                        ELSE <<>>,
                     raw_cards_data |-> cards.raw_cards_data]

(***************************************************************************)
(* AssembledContext.to_markdown (core/models.py).  A line is a sequence of *)
(* chunks; the text is the lines joined with "\n".                         *)
(***************************************************************************)
\* the truth value of an optional str
Truthy(text) == text # None /\ text # ""

\* str.title() of the values of QuestionType
Title ==
    [love |-> "Love", career |-> "Career", spiritual |-> "Spiritual",
     financial |-> "Financial", health |-> "Health", general |-> "General"]

\* str.replace("_", " ") of the values of RelationshipType
Spaced ==
    [amplifies |-> "amplifies", challenges |-> "challenges", clarifies |-> "clarifies",
     similar_energy |-> "similar energy", opposite_energy |-> "opposite energy",
     learning_sequence |-> "learning sequence"]

\* to_markdown, lines 274-292: the lines of one card; self.question_type.value
\* is evaluated only for a card that has a question context
CardLines(ctx, card) ==
    IF Truthy(card.question_context) /\ ctx.question_type = None
    THEN Raise("AttributeError", <<"'NoneType' object has no attribute 'value'">>)
    ELSE [status |-> "ok",
          lines |->
            <<<<"### Position ", card.position_index + 1, ": ", card.position_name>>,
              <<"**", card.card_name, "** (", card.orientation, ")">>,
              <<>>,
              <<"*Position meaning:* ", card.position_description>>,
              <<>>,
              <<"**Interpretation:** ", card.position_interpretation>>,
              <<>>>>
            \o (IF card.position_keywords # <<>>
                THEN <<<<"*Keywords:* ">> \o Join(", ", card.position_keywords), <<>>>>
                ELSE <<>>)
            \o (IF Truthy(card.question_context)
                THEN <<<<"**", Title[ctx.question_type], " Context:** ",
                         card.question_context>>, <<>>>>
                ELSE <<>>)
            \o <<<<"---">>, <<>>>>]

\* to_markdown, lines 294-302: the lines of the relationships
RelationshipLines(relationships) ==
    IF relationships # <<>>
    THEN <<<<"## Card Relationships">>, <<>>>>
         \o [k \in 1..Len(relationships) |->
                <<"- **", relationships[k].card1_name, "** ",
                  Spaced[relationships[k].relationship_type], " **",
                  relationships[k].card2_name, "**: ">>
                \o relationships[k].interpretation]
         \o <<<<>>>>
    ELSE <<>>

\* AssembledContext.to_markdown: the text, or what the first failing card raises
ToMarkdown(ctx) ==
    LET head == <<<<"# Tarot Reading: ", ctx.spread_name>>, <<>>>>
                \o (IF Truthy(ctx.question)
                    THEN <<<<"**Question:** ", ctx.question>>, <<>>>> ELSE <<>>)
                \o (IF ctx.question_type # None
                    THEN <<<<"**Question Type:** ", ctx.question_type>>, <<>>>>
                    ELSE <<>>)
                \o <<<<"## Cards Drawn">>, <<>>>>
        cards == [i \in 1..Len(ctx.card_interpretations) |->
                     CardLines(ctx, ctx.card_interpretations[i])]
        failing == {i \in 1..Len(cards) : cards[i].status # "ok"}
    IN IF failing # {}
       THEN cards[CHOOSE i \in failing : \A j \in failing : i <= j]
       ELSE [status |-> "ok",
             text |-> Join("\n", head
                                 \o Concat([i \in 1..Len(cards) |-> cards[i].lines])
                                 \o RelationshipLines(ctx.relationships))]

(***************************************************************************)
(* The inputs: the readings a caller may build (Reading and DrawnCard are  *)
(* plain models, their fields are not checked against a deck or a spread), *)
(* the arguments of assemble, the arguments of get_interpretation.         *)
(***************************************************************************)
SeqsUpTo(set, n) == UNION {[1..k -> set] : k \in 0..n}

DrawnNames ==
    [cups |-> "Ace of Cups", fool |-> "The Fool", mage |-> "Magician (as drawn)",
     moon |-> "The Moon"]
ImagePaths ==
    [cups |-> P("images/cups.jpg"), fool |-> NoPath, mage |-> P("images/mage.jpg"),
     moon |-> P("images/moon.jpg")]

DrawnCard(card_id, position_index, position_name, orientation) ==
    [card_id |-> card_id,
     card_name |-> DrawnNames[card_id],
     position_index |-> position_index,
     position_name |-> position_name,
     orientation |-> orientation,
     image_path |-> ImagePaths[card_id]]

OrientationPatterns == {"upright first", "reversed first"}
OrientationAt(pattern, i) ==
    IF (i % 2 = 1) = (pattern = "upright first") THEN UPRIGHT ELSE REVERSED

IndexPatterns == {"in order", "one further", "from the end", "backwards"}
IndexAt(pattern, i, n) ==
    CASE pattern = "in order" -> i - 1
      [] pattern = "one further" -> i
      [] pattern = "from the end" -> -i
      [] pattern = "backwards" -> n - i

Headers ==
    {[spread_id |-> "three_card", spread_name |-> "Three Card Spread",
      question |-> None, question_type |-> None],
     [spread_id |-> "three_card", spread_name |-> "Past, Present, Future",
      question |-> "Should I change jobs?", question_type |-> "career"],
     [spread_id |-> "single_card", spread_name |-> "Single Card",
      question |-> "What now?", question_type |-> GENERAL],
     [spread_id |-> UnknownSpreadId, spread_name |-> "Mystery",
      question |-> "Will I find love?", question_type |-> "love"]}

PositionNameAt(spread_id, position_index) ==
    IF /\ spread_id \in DOMAIN DefaultSpreads
       /\ 0 <= position_index
       /\ position_index < Len(DefaultSpreads[spread_id].positions)
    THEN DefaultSpreads[spread_id].positions[position_index + 1].name
    ELSE ""

MakeReading(header, ids, orientations, indexes) ==
    [id |-> "20240101_120000",
     spread_id |-> header.spread_id,
     spread_name |-> header.spread_name,
     question |-> header.question,
     question_type |-> header.question_type,
     drawn_cards |->
        [i \in 1..Len(ids) |->
            LET position_index == IndexAt(indexes, i, Len(ids))
            IN DrawnCard(ids[i], position_index,
                         PositionNameAt(header.spread_id, position_index),
                         OrientationAt(orientations, i))]]

\* readings of any cards, known or not, repeated or not, in the order of the positions
ContentReadings ==
    {MakeReading(h, ids, o, "in order") :
        h \in {g \in Headers : g.spread_id # UnknownSpreadId},
        ids \in SeqsUpTo(KnownIds \cup {UnknownId}, MaxDraw),
        o \in OrientationPatterns}

\* readings of a spread that the registry does not hold
UnknownSpreadReadings ==
    {MakeReading(h, ids, "upright first", "in order") :
        h \in {g \in Headers : g.spread_id = UnknownSpreadId},
        ids \in SeqsUpTo({"cups", UnknownId}, MaxDraw)}

\* readings whose position indexes are not those of the positions in order
StructureReadings ==
    {MakeReading(h, ids, "upright first", x) :
        h \in {g \in Headers : g.question_type \in {None, GENERAL}},
        ids \in SeqsUpTo({"cups", UnknownId}, MaxDraw),
        x \in IndexPatterns}

Readings == ContentReadings \cup UnknownSpreadReadings \cup StructureReadings

QuestionTypeArg(kind, value) == [kind |-> kind, value |-> value]
QuestionTypeArgs ==
    {QuestionTypeArg("none", None),
     QuestionTypeArg("enum", GENERAL),
     QuestionTypeArg("enum", "career"),
     QuestionTypeArg("str", "love"),
     QuestionTypeArg("str", "weather")}

PathTokens == {".", "temporal_positions", "past", "upright"}
Paths == SeqsUpTo(PathTokens, MaxPathLen)

NoCall == [called |-> FALSE, question_type |-> QuestionTypeArg("none", None),
           include_relationships |-> TRUE]
NoResult == [status |-> "none"]
SeedArg(kind, value) == [kind |-> kind, value |-> value]
NoCreate == [called |-> FALSE, spread_id |-> "single_card",
             question_type |-> QuestionTypeArg("none", None),
             allow_reversals |-> TRUE, seed |-> SeedArg("none", 0)]
NoInterpretation == [interpretation |-> "", keywords |-> <<>>, raw |-> EmptyDict]
EmptyReading == MakeReading(CHOOSE h \in Headers : h.spread_id = "single_card", <<>>,
                            "upright first", "in order")

NoLookup == [called |-> FALSE, config_path |-> None, reload |-> FALSE, system |-> "tarot"]

\* a process in which the default registry is loaded and held by an assembler
\* and by an engine
RegistryLoaded ==
    /\ objects = <<DefaultSpreads>>
    /\ default_registry = 1
    /\ rcall = NoLookup
    /\ rout = NoResult
    /\ assembler_spread_registry = 1
    /\ engine_spread_registry = 1

(***************************************************************************)
(* The state machine of assemble: a deck and a reading are given, and      *)
(* assemble is called on them any number of times.                         *)
(***************************************************************************)
Init ==
    /\ deck_cards \in {CardsA, CardsB}
    /\ deck = CardById(deck_cards)
    /\ registry = DefaultSpreads
    /\ reading \in Readings
    /\ args = NoCall
    /\ repeated = FALSE
    /\ out = NoResult
    /\ icall = [called |-> FALSE, card_id |-> "cups", rag_mapping |-> <<>>,
                reversed |-> FALSE]
    /\ iout = NoInterpretation
    /\ ecall = NoCreate
    /\ eout = NoResult
    /\ RegistryLoaded

\* faulty variant: the normalised category is stored in the reading
ReadingWithCategoryStored(rd, question_type) ==
    IF question_type.kind \in {"str", "enum"} /\ question_type.value \in QuestionType
    THEN [rd EXCEPT !.question_type = question_type.value]
    ELSE rd

\* assemble rebinds its local question_type and never assigns to the reading
ReadingAfterAssemble(rd, question_type) == rd

\* one call of assemble, in a process whose hash seed is seed
Assemble(question_type, include_relationships, seed) ==
    /\ assembler_spread_registry # NoObject
    /\ args' = [called |-> TRUE, question_type |-> question_type,
                include_relationships |-> include_relationships]
    /\ repeated' = (args.called /\ args' = args)
    /\ out' = AssembleResult(reading, question_type, include_relationships, deck,
                             registry, seed)
    /\ reading' = ReadingAfterAssemble(reading, question_type)
    /\ UNCHANGED <<deck_cards, deck, registry, icall, iout, ecall, eout>>
    /\ UNCHANGED registry_state

Next ==
    \E question_type \in QuestionTypeArgs, include_relationships \in BOOLEAN,
       seed \in HashSeeds :
        Assemble(question_type, include_relationships, seed)

Spec == Init /\ [][Next]_vars

(***************************************************************************)
(* The state machine of one get_interpretation call: a card of a deck, a   *)
(* path and an orientation are given, and the call is made.                *)
(***************************************************************************)
InitInterp ==
    /\ deck_cards \in {CardsA, CardsB, CardsC}
    /\ deck = CardById(deck_cards)
    /\ registry = DefaultSpreads
    /\ reading = EmptyReading
    /\ args = NoCall
    /\ repeated = FALSE
    /\ out = NoResult
    /\ icall \in [called : {FALSE}, card_id : KnownIds, rag_mapping : Paths,
                  reversed : BOOLEAN]
    /\ iout = NoInterpretation
    /\ ecall = NoCreate
    /\ eout = NoResult
    /\ RegistryLoaded

CallGetInterpretation ==
    /\ ~icall.called
    /\ icall' = [icall EXCEPT !.called = TRUE]
    /\ iout' = GetInterpretation(deck[icall.card_id], icall.rag_mapping, icall.reversed)
    /\ UNCHANGED <<deck_cards, deck, registry, reading, args, repeated, out, ecall, eout>>
    /\ UNCHANGED registry_state

NextInterp == CallGetInterpretation

SpecInterp == InitInterp /\ [][NextInterp]_vars

(***************************************************************************)
(* ReadingEngine.create_reading and TarotDeck.draw.                        *)
(*                                                                         *)
(* A random.Random(seed) is used for one shuffle of the deck and then for  *)
(* one random() per drawn card.  What it gives is a stream: the order in   *)
(* which the shuffle leaves the cards, and for every card whether its      *)
(* random() is below 0.5.  A generator seeded with None is seeded from the *)
(* system and gives any stream; a generator seeded with an int gives the   *)
(* stream of CPython's Mersenne Twister for that seed.                     *)
(***************************************************************************)
Perms(n) == {p \in [1..n -> 1..n] : \A i, j \in 1..n : i # j => p[i] # p[j]}
Streams(n) == [order : Perms(n), flips : [1..n -> BOOLEAN]]

\* random.Random(seed) for the seeds of the model, on a list of n cards:
\* shuffle(list(range(1, n + 1))) and then n times random() < 0.5
SeededStream(seed, n) ==
    CASE seed = 7 /\ n = 2 -> [order |-> <<1, 2>>, flips |-> <<FALSE, TRUE>>]
      [] seed = 7 /\ n = 3 -> [order |-> <<3, 1, 2>>, flips |-> <<TRUE, TRUE, FALSE>>]
      [] seed = 42 /\ n = 2 -> [order |-> <<2, 1>>, flips |-> <<TRUE, TRUE>>]
      [] seed = 42 /\ n = 3 -> [order |-> <<2, 1, 3>>, flips |-> <<TRUE, TRUE, TRUE>>]

ImageFilenames == [cups |-> "cups.jpg", fool |-> "fool.jpg", mage |-> "mage.jpg"]

\* TarotDeck.get_image_path: the image directory and the file name of the card
GetImagePath(card) == P(<<"images", ImageFilenames[card.card_id]>>)

\* TarotDeck.draw, lines 285-302: the i-th drawn card, 0 <= i < count
DrawOne(shuffled, i, allow_reversals, stream) ==
    LET card == shuffled[i + 1]
        is_reversed == stream.flips[i + 1]
    IN [card_id |-> card.card_id,
        card_name |-> card.card_name,
        position_index |-> i,
        position_name |-> "",
        orientation |-> IF allow_reversals /\ is_reversed THEN REVERSED ELSE UPRIGHT,
        image_path |-> GetImagePath(card)]

\* faulty variant: every card is drawn from the top of the shuffled deck
DrawFromTheTop(dcards, count, allow_reversals, stream) ==
    IF count > Len(dcards)
    THEN [status |-> "raised", error |-> "ValueError",
          message |-> <<"Cannot draw ", count, " cards from a ", Len(dcards), "-card deck">>]
    ELSE LET shuffled == [i \in 1..Len(dcards) |-> dcards[stream.order[1]]]
         IN [status |-> "ok",
             drawn |-> [i \in 1..count |-> DrawOne(shuffled, i - 1, allow_reversals, stream)]]

\* TarotDeck.draw
Draw(dcards, count, allow_reversals, stream) ==
    IF count > Len(dcards)
    THEN [status |-> "raised", error |-> "ValueError",
          message |-> <<"Cannot draw ", count, " cards from a ", Len(dcards), "-card deck">>]
    ELSE LET shuffled == [i \in 1..Len(dcards) |-> dcards[stream.order[i]]]
         IN [status |-> "ok",
             drawn |-> [i \in 1..count |-> DrawOne(shuffled, i - 1, allow_reversals, stream)]]

\* create_reading, lines 69-70: a str goes through QuestionType(...), anything else is kept
NormalizeForCreate(question_type) ==
    IF question_type.kind \in {"str", "enum"}
    THEN IF question_type.value \in QuestionType
         THEN [status |-> "ok", value |-> question_type.value]
         ELSE Raise("ValueError", <<"'", question_type.value, "' is not a valid QuestionType">>)
    ELSE [status |-> "ok", value |-> None]

\* create_reading, lines 81-83: zip(drawn_cards, spread.positions)
AssignPositions(drawn_cards, positions) ==
    [i \in 1..Len(drawn_cards) |->
        IF i <= Len(positions)
        THEN [drawn_cards[i] EXCEPT !.position_index = i - 1,
                                    !.position_name = positions[i].name]
        ELSE drawn_cards[i]]

Now == "20240101_120000"

\* ReadingEngine.create_reading
CreateReadingResult(spread_id, question, question_type, allow_reversals, seed, stream, dcards, reg) ==
    LET loaded == LoadSpread(reg, spread_id)
        qt == NormalizeForCreate(question_type)
    IN IF loaded.status # "ok" THEN loaded
       ELSE IF qt.status # "ok" THEN qt
       ELSE LET num_positions == Len(loaded.spread.positions)
                d == Draw(dcards, num_positions, allow_reversals, stream)
            IN IF d.status # "ok" THEN d
               ELSE [status |-> "ok",
                     reading |->
                        [id |-> Now,
                         created_at |-> Now,
                         spread_id |-> spread_id,
                         spread_name |-> loaded.spread.name,
                         question |-> question,
                         question_type |-> qt.value,
                         drawn_cards |-> AssignPositions(d.drawn, loaded.spread.positions),
                         allow_reversals |-> allow_reversals,
                         seed |-> seed]]

CardsShort == <<CupsB, FoolB>>
EngineSpreadIds == {"three_card", "single_card", UnknownSpreadId}
EngineQuestionTypeArgs ==
    {QuestionTypeArg("none", None), QuestionTypeArg("str", "love"),
     QuestionTypeArg("str", "weather")}
SeedArgs == {SeedArg("none", 0), SeedArg("int", 7), SeedArg("int", 42)}

InitEngine ==
    /\ deck_cards \in {CardsA, CardsShort}
    /\ deck = CardById(deck_cards)
    /\ registry = DefaultSpreads
    /\ reading = EmptyReading
    /\ args = NoCall
    /\ repeated = FALSE
    /\ out = NoResult
    /\ icall = [called |-> FALSE, card_id |-> "cups", rag_mapping |-> <<>>,
                reversed |-> FALSE]
    /\ iout = NoInterpretation
    /\ ecall = NoCreate
    /\ eout = NoResult
    /\ RegistryLoaded

\* faulty variant: the seed is not handed to the generator of the draw
CreateReadingUnseeded(spread_id, question_type, allow_reversals, seed, stream) ==
    /\ engine_spread_registry # NoObject
    /\ ecall' = [called |-> TRUE, spread_id |-> spread_id, question_type |-> question_type,
                 allow_reversals |-> allow_reversals, seed |-> seed]
    /\ repeated' = (ecall.called /\ ecall' = ecall)
    /\ eout' = CreateReadingResult(spread_id, None, question_type, allow_reversals, seed,
                                   stream, deck_cards, objects[engine_spread_registry])
    /\ UNCHANGED <<deck_cards, deck, registry, reading, args, out, icall, iout>>
    /\ UNCHANGED registry_state

\* one call of create_reading; stream is what the generator of the call gives
CreateReading(spread_id, question_type, allow_reversals, seed, stream) ==
    /\ engine_spread_registry # NoObject
    /\ seed.kind = "int" => stream = SeededStream(seed.value, Len(deck_cards))
    /\ ecall' = [called |-> TRUE, spread_id |-> spread_id, question_type |-> question_type,
                 allow_reversals |-> allow_reversals, seed |-> seed]
    /\ repeated' = (ecall.called /\ ecall' = ecall)
    /\ eout' = CreateReadingResult(spread_id, None, question_type, allow_reversals, seed,
                                   stream, deck_cards, objects[engine_spread_registry])
    /\ UNCHANGED <<deck_cards, deck, registry, reading, args, out, icall, iout>>
    /\ UNCHANGED registry_state

NextEngine ==
    \E spread_id \in EngineSpreadIds, question_type \in EngineQuestionTypeArgs,
       allow_reversals \in BOOLEAN, seed \in SeedArgs,
       stream \in Streams(Len(deck_cards)) :
        CreateReading(spread_id, question_type, allow_reversals, seed, stream)

SpecEngine == InitEngine /\ [][NextEngine]_vars

(***************************************************************************)
(* The process-wide default registry.                                      *)
(*                                                                         *)
(* A process starts with no default registry.  A caller holds two          *)
(* registries of its own, built with SpreadRegistry(spreads, layouts): one *)
(* with the spreads of its configuration and one without any spread.       *)
(* Anyone may call get_spread_registry; an assembler and an engine are     *)
(* constructed at some time; the engine creates readings, the caller hands *)
(* a created reading to the assembler.                                     *)
(***************************************************************************)
CallerRegistries == <<CustomSpreads, EmptyDict>>
ConfigPathArgs == {None, "custom.json"}
SystemArgs == {"tarot", "runes"}
RegistrySpreadIds == {"single_card", "pair"}

InitRegistry ==
    /\ deck_cards = CardsA
    /\ deck = CardById(deck_cards)
    /\ registry = EmptyDict
    /\ reading = EmptyReading
    /\ args = NoCall
    /\ repeated = FALSE
    /\ out = NoResult
    /\ icall = [called |-> FALSE, card_id |-> "cups", rag_mapping |-> <<>>,
                reversed |-> FALSE]
    /\ iout = NoInterpretation
    /\ ecall = NoCreate
    /\ eout = NoResult
    /\ objects = CallerRegistries
    /\ default_registry = NoObject
    /\ rcall = NoLookup
    /\ rout = NoResult
    /\ assembler_spread_registry = NoObject
    /\ engine_spread_registry = NoObject

\* one call of get_spread_registry by a caller
GetSpreadRegistry(config_path, reload, system) ==
    LET r == GetSpreadRegistryResult(config_path, reload, system, default_registry, objects)
    IN /\ Len(r.objects) <= MaxObjects
       /\ rcall' = [called |-> TRUE, config_path |-> config_path, reload |-> reload,
                    system |-> system]
       /\ rout' = r.returned
       /\ default_registry' = r.default_registry
       /\ objects' = r.objects
       /\ UNCHANGED <<deck_cards, deck, registry, reading, args, repeated, out, icall, iout,
                      ecall, eout, assembler_spread_registry, engine_spread_registry>>

\* faulty variant: the constructor asks for a reload
NewAssemblerReloading ==
    LET r == GetSpreadRegistryResult(None, TRUE, "tarot", default_registry, objects)
    IN /\ assembler_spread_registry = NoObject
       /\ Len(r.objects) <= MaxObjects
       /\ r.returned.status = "ok"
       /\ assembler_spread_registry' = r.returned.object
       /\ registry' = r.objects[r.returned.object]
       /\ default_registry' = r.default_registry
       /\ objects' = r.objects
       /\ UNCHANGED <<deck_cards, deck, reading, args, repeated, out, icall, iout, ecall,
                      eout, rcall, rout, engine_spread_registry>>

\* DeterministicAssembler.__init__ on the deck: self._spread_registry is what
\* get_spread_registry() returns
NewAssembler ==
    LET r == GetSpreadRegistryResult(None, FALSE, "tarot", default_registry, objects)
    IN /\ assembler_spread_registry = NoObject
       /\ Len(r.objects) <= MaxObjects
       /\ r.returned.status = "ok"
       /\ assembler_spread_registry' = r.returned.object
       /\ registry' = r.objects[r.returned.object]
       /\ default_registry' = r.default_registry
       /\ objects' = r.objects
       /\ UNCHANGED <<deck_cards, deck, reading, args, repeated, out, icall, iout, ecall,
                      eout, rcall, rout, engine_spread_registry>>

\* ReadingEngine.__init__ on the deck: spread_registry or get_spread_registry(),
\* where spread_registry is None or one of the caller's registries
NewEngine(spread_registry) ==
    LET given == spread_registry # NoObject /\ RegistryLen(objects[spread_registry]) # 0
        r == IF given
             THEN [returned |-> [status |-> "ok", object |-> spread_registry],
                   default_registry |-> default_registry, objects |-> objects]
             ELSE GetSpreadRegistryResult(None, FALSE, "tarot", default_registry, objects)
    IN /\ engine_spread_registry = NoObject
       /\ Len(r.objects) <= MaxObjects
       /\ r.returned.status = "ok"
       /\ engine_spread_registry' = r.returned.object
       /\ default_registry' = r.default_registry
       /\ objects' = r.objects
       /\ UNCHANGED <<deck_cards, deck, registry, reading, args, repeated, out, icall, iout,
                      ecall, eout, rcall, rout, assembler_spread_registry>>

\* the caller takes the reading that create_reading returned as the reading to assemble
HandOver ==
    /\ eout.status = "ok"
    /\ reading' = eout.reading
    /\ args' = NoCall
    /\ repeated' = FALSE
    /\ out' = NoResult
    /\ UNCHANGED <<deck_cards, deck, registry, icall, iout, ecall, eout>>
    /\ UNCHANGED registry_state

NextRegistry ==
    \/ \E config_path \in ConfigPathArgs, reload \in BOOLEAN, system \in SystemArgs :
          GetSpreadRegistry(config_path, reload, system)
    \/ NewAssembler
    \/ \E spread_registry \in {NoObject} \cup (1..Len(CallerRegistries)) :
          NewEngine(spread_registry)
    \/ \E spread_id \in RegistrySpreadIds :
          CreateReading(spread_id, QuestionTypeArg("none", None), TRUE, SeedArg("int", 7),
                        SeededStream(7, Len(deck_cards)))
    \/ HandOver
    \/ \E include_relationships \in BOOLEAN :
          Assemble(QuestionTypeArg("none", None), include_relationships, "seed a")

SpecRegistry == InitRegistry /\ [][NextRegistry]_vars

(***************************************************************************)
(* Properties.  The notions they use are stated here from the data alone:  *)
(* they do not go through the operators of the assembler.                  *)
(***************************************************************************)
Missing == [ty |-> "missing"]

\* the node of a position tree that a list of segments leads to, Missing if a segment
\* is not found or the node it is looked up in is not a mapping
RECURSIVE NodeAt(_, _)
NodeAt(node, segments) ==
    IF segments = <<>> THEN node
    ELSE IF node.ty = "dict" /\ Head(segments) \in DOMAIN node.kv
         THEN NodeAt(node.kv[Head(segments)], Tail(segments))
         ELSE Missing

PositionTree(data) ==
    IF "position_interpretations" \in DOMAIN data
    THEN data.position_interpretations
    ELSE D(EmptyDict)

\* the entry of a mapping node, a default when the node does not hold it
EntryOf(node, name, default) ==
    IF <<name>> \in DOMAIN node.kv THEN node.kv[<<name>>].v ELSE default

\* the core meaning of a card for an orientation, empty when it is not authored
CoreOf(data, orientation) ==
    IF "core_meanings" \in DOMAIN data /\ orientation \in DOMAIN data.core_meanings
    THEN data.core_meanings[orientation]
    ELSE EmptyDict
CoreEssence(data, orientation) ==
    IF "essence" \in DOMAIN CoreOf(data, orientation)
    THEN CoreOf(data, orientation).essence ELSE ""
CoreKeywords(data, orientation) ==
    IF "keywords" \in DOMAIN CoreOf(data, orientation)
    THEN CoreOf(data, orientation).keywords ELSE <<>>

\* the question context bucket of a card for a category, empty when it is not authored
BucketOf(data, category) ==
    IF "question_contexts" \in DOMAIN data /\ category \in DOMAIN data.question_contexts
    THEN data.question_contexts[category]
    ELSE EmptyDict

\* the category an assemble call works with: the argument, else the reading's own
EffectiveCategory(call, rd) ==
    IF call.question_type.kind = "none" THEN rd.question_type ELSE call.question_type.value

ValidCategoryArg(call) ==
    call.question_type.kind = "none" \/ call.question_type.value \in QuestionType

DrawnIdSet == {reading.drawn_cards[i].card_id : i \in 1..Len(reading.drawn_cards)}
DistinctDraw ==
    \A i, j \in 1..Len(reading.drawn_cards) :
        i # j => reading.drawn_cards[i].card_id # reading.drawn_cards[j].card_id

\* the entries of the relationship data of a card: <<type, other card, text>>
DeclaredEntries(data) ==
    IF "card_relationships" \in DOMAIN data
    THEN LET rels == data.card_relationships
         IN UNION {{<<rels[k].key, rels[k].value[j].key,
                      IF "interpretation" \in DOMAIN rels[k].value[j].value
                      THEN rels[k].value[j].value.interpretation ELSE <<>>>> :
                        j \in 1..Len(rels[k].value)} : k \in 1..Len(rels)}
    ELSE {}

IsPlaceholder(text) == Len(text) >= 1 /\ text[1] = "[TO BE WRITTEN"
IsAuthored(text) == text # <<>> /\ ~IsPlaceholder(text)

\* card a's data declares an authored relationship of type t to card b
Declares(dk, a, t, b) ==
    \E e \in DeclaredEntries(dk[a]) : e[1] = t /\ e[2] = b /\ IsAuthored(e[3])

\* the places of the matches of the last result for a pair of cards and a type
MatchesFor(a, b, t) ==
    {i \in 1..Len(out.relationships) :
        /\ out.relationships[i].relationship_type = t
        /\ {out.relationships[i].card1_id, out.relationships[i].card2_id} = {a, b}}

\* C1: when assemble succeeds there is one card interpretation per drawn card, and the
\* i-th carries the card_id, card_name, position_index, orientation and image_path of
\* the i-th drawn card.
C1_OneInterpretationPerDrawnCard ==
    out.status = "ok" =>
        /\ Len(out.card_interpretations) = Len(reading.drawn_cards)
        /\ \A i \in 1..Len(reading.drawn_cards) :
            LET ci == out.card_interpretations[i]
                dc == reading.drawn_cards[i]
            IN /\ ci.card_id = dc.card_id
               /\ ci.card_name = dc.card_name
               /\ ci.position_index = dc.position_index
               /\ ci.orientation = dc.orientation
               /\ ci.image_path = dc.image_path

\* a successful assembly of three drawn cards, not all the same card
C1_Witness ==
    /\ out.status = "ok"
    /\ Len(reading.drawn_cards) = 3
    /\ reading.drawn_cards[1].card_id # reading.drawn_cards[3].card_id
    /\ reading.drawn_cards[1].orientation # reading.drawn_cards[2].orientation

\* the text and keywords that get_interpretation is to give for a node reached
FromNode(node, reversed) ==
    [interpretation |-> EntryOf(node, IF reversed THEN "reversed" ELSE "upright", ""),
     keywords |-> EntryOf(node, "keywords", <<>>)]
FromCore(data, reversed) ==
    [interpretation |-> CoreEssence(data, IF reversed THEN "reversed" ELSE "upright"),
     keywords |-> CoreKeywords(data, IF reversed THEN "reversed" ELSE "upright")]
Returned ==
    IF "error" \in DOMAIN iout THEN iout
    ELSE [interpretation |-> iout.interpretation, keywords |-> iout.keywords]

\* the core meanings of a card, and the meaning of an orientation in them, are mappings
\* wherever they are present
CoreIsMapping(data, orientation) ==
    "core_meanings" \in DOMAIN data =>
        /\ "ty" \notin DOMAIN data.core_meanings
        /\ orientation \in DOMAIN data.core_meanings =>
                "ty" \notin DOMAIN data.core_meanings[orientation]
Reached == NodeAt(PositionTree(deck[icall.card_id]), Split(icall.rag_mapping))

\* the call returns, with the text of the node's entry for the orientation and the
\* keywords of its keywords entry, for each of the two entries that the node holds
GivesEntriesOf(node, reversed) ==
    LET key == IF reversed THEN "reversed" ELSE "upright" IN
    /\ "error" \notin DOMAIN iout
    /\ <<key>> \in DOMAIN node.kv => iout.interpretation = node.kv[<<key>>].v
    /\ <<"keywords">> \in DOMAIN node.kv => iout.keywords = node.kv[<<"keywords">>].v

\* C2 (as claimed): get_interpretation gives the text and keywords of the terminal node
\* whenever every segment of the path is found, and the core meaning of the orientation
\* whenever a segment is missing. The claim is about the walk over the position tree:
\* the fallback is compared for cards whose core meanings are mappings.
C2_AsClaimed ==
    icall.called =>
        IF Reached.ty = "missing"
        THEN CoreIsMapping(deck[icall.card_id], IF icall.reversed THEN "reversed" ELSE "upright")
             => Returned = FromCore(deck[icall.card_id], icall.reversed)
        ELSE Reached.ty = "dict" /\ GivesEntriesOf(Reached, icall.reversed)

\* C2 (amended): get_interpretation gives the text and keywords of the terminal node
\* whenever every segment of the path is found and the terminal node is a mapping; it
\* gives the core meaning of the orientation whenever a segment is missing or the
\* terminal node is not a mapping. The fallback is compared for cards whose core
\* meanings are mappings, and the terminal node for the entries that it holds.
C2_TerminalMappingOrCore ==
    icall.called =>
        IF Reached.ty = "dict"
        THEN GivesEntriesOf(Reached, icall.reversed)
        ELSE CoreIsMapping(deck[icall.card_id], IF icall.reversed THEN "reversed" ELSE "upright")
             => Returned = FromCore(deck[icall.card_id], icall.reversed)

\* a reversed call whose path leads to an authored node that differs from the core meaning
C2_Witness ==
    /\ icall.called
    /\ icall.reversed
    /\ Reached.ty = "dict"
    /\ iout.interpretation # ""
    /\ Returned # FromCore(deck[icall.card_id], icall.reversed)
    /\ Returned # FromNode(Reached, FALSE)

\* C3: when the effective category is "general" or unset, every card interpretation has
\* no question context and no question keywords, whatever the card data holds.
C3_NoQuestionContextForGeneral ==
    (out.status = "ok" /\ EffectiveCategory(args, reading) \in {None, GENERAL}) =>
        \A i \in 1..Len(out.card_interpretations) :
            /\ out.card_interpretations[i].question_context = None
            /\ out.card_interpretations[i].question_keywords = <<>>

\* a successful "general" assembly of a card whose data holds a "general" bucket
C3_Witness ==
    /\ out.status = "ok"
    /\ EffectiveCategory(args, reading) = GENERAL
    /\ \E i \in 1..Len(reading.drawn_cards) :
        BucketOf(deck[reading.drawn_cards[i].card_id], GENERAL) # EmptyDict

\* C4 (as claimed): in a reading of distinct cards where card a declares an authored
\* "amplifies" to card b and card b an authored "challenges" to card a, the
\* relationships hold exactly one "amplifies" and exactly one "challenges" match of
\* the pair, each with the smaller id as card1.
C4_AsClaimed ==
    (out.status = "ok" /\ args.include_relationships /\ DistinctDraw) =>
        \A a, b \in DrawnIdSet :
            (a # b /\ Declares(deck, a, "amplifies", b) /\ Declares(deck, b, "challenges", a))
            => /\ Cardinality(MatchesFor(a, b, "amplifies")) = 1
               /\ Cardinality(MatchesFor(a, b, "challenges")) = 1
               /\ \A i \in MatchesFor(a, b, "amplifies") \cup MatchesFor(a, b, "challenges") :
                    StrLess(out.relationships[i].card1_id, out.relationships[i].card2_id)

\* C5 (as claimed): no two matches of a result have the same pair of cards and the
\* same relationship type.
C5_AsClaimed ==
    out.status = "ok" =>
        \A i, j \in 1..Len(out.relationships) :
            (/\ i # j
             /\ out.relationships[i].relationship_type = out.relationships[j].relationship_type
             /\ {out.relationships[i].card1_id, out.relationships[i].card2_id} =
                {out.relationships[j].card1_id, out.relationships[j].card2_id})
            => FALSE

\* C6: no match has a text that begins with the placeholder sentinel, and an entry
\* with such a text gives no match of its card, its type and its target.
C6_NoPlaceholderMatch ==
    out.status = "ok" =>
        /\ \A i \in 1..Len(out.relationships) :
            ~IsPlaceholder(out.relationships[i].interpretation)
        /\ \A c \in DrawnIdSet : \A e \in DeclaredEntries(deck[c]) :
            IsPlaceholder(e[3]) =>
                ~\E i \in 1..Len(out.relationships) :
                    /\ out.relationships[i].card1_id = c
                    /\ out.relationships[i].card2_id = e[2]
                    /\ out.relationships[i].relationship_type = e[1]

\* a result with matches, of a reading that holds a card and the target of one of its
\* placeholder entries, the card being the smaller of the two
C6_Witness ==
    /\ out.status = "ok"
    /\ args.include_relationships
    /\ out.relationships # <<>>
    /\ \E c \in DrawnIdSet : \E e \in DeclaredEntries(deck[c]) :
        /\ IsPlaceholder(e[3])
        /\ e[1] \in RelationshipType
        /\ e[2] \in DrawnIdSet
        /\ StrLess(c, e[2])

\* C7: a call of assemble with the reading, deck, registry and arguments of the call
\* before it gives the result of the call before it, whatever process it runs in.
C7_SameInputsSameResult ==
    [][(/\ args.called
        /\ args' = args
        /\ reading' = reading
        /\ deck' = deck
        /\ registry' = registry) => out' = out]_vars

\* a repeated call that succeeded with several matches among several cards
C7_Witness ==
    /\ repeated
    /\ out.status = "ok"
    /\ Len(out.relationships) >= 2
    /\ \E i, j \in 1..Len(out.relationships) :
        out.relationships[i].card1_id # out.relationships[j].card1_id

\* the scenario of C8: the reading's spread has the three positions past, present and
\* future under temporal_positions, three known cards are drawn for them in order
\* with a valid category, and one of the cards has no temporal_positions entry
TemporalSpread(spread) ==
    /\ Len(spread.positions) = 3
    /\ spread.positions[1].rag_mapping = <<"temporal_positions", ".", "past">>
    /\ spread.positions[2].rag_mapping = <<"temporal_positions", ".", "present">>
    /\ spread.positions[3].rag_mapping = <<"temporal_positions", ".", "future">>
LacksTemporal(data) == <<"temporal_positions">> \notin DOMAIN PositionTree(data).kv
TemporalSegments(i) ==
    <<<<"temporal_positions">>, <<CASE i = 1 -> "past" [] i = 2 -> "present" [] i = 3 -> "future">>>>
C8_Scenario ==
    /\ args.called
    /\ ValidCategoryArg(args)
    /\ reading.spread_id \in DOMAIN registry
    /\ TemporalSpread(registry[reading.spread_id])
    /\ Len(reading.drawn_cards) = 3
    /\ \A i \in 1..3 :
        /\ reading.drawn_cards[i].card_id \in DOMAIN deck
        /\ reading.drawn_cards[i].position_index = i - 1
    /\ \E i \in 1..3 : LacksTemporal(deck[reading.drawn_cards[i].card_id])

\* C8: in that scenario assemble succeeds; a card without temporal_positions gets its
\* core essence and core keywords for its orientation, and every other card is
\* resolved from its own position tree.
C8_FallbackToCoreEssence ==
    C8_Scenario =>
        /\ out.status = "ok"
        /\ \A i \in 1..3 :
            LET dc == reading.drawn_cards[i]
                data == deck[dc.card_id]
                node == NodeAt(PositionTree(data), TemporalSegments(i))
                ci == out.card_interpretations[i]
                expected == IF ~LacksTemporal(data) /\ node.ty = "dict"
                            THEN FromNode(node, dc.orientation = REVERSED)
                            ELSE FromCore(data, dc.orientation = REVERSED)
            IN /\ ci.position_interpretation = expected.interpretation
               /\ ci.position_keywords = expected.keywords

\* the scenario, with a reversed card that has no temporal_positions and an authored
\* core essence, next to a card that is resolved from its tree
C8_Witness ==
    /\ C8_Scenario
    /\ out.status = "ok"
    /\ \E i, j \in 1..3 :
        /\ LacksTemporal(deck[reading.drawn_cards[i].card_id])
        /\ reading.drawn_cards[i].orientation = REVERSED
        /\ out.card_interpretations[i].position_interpretation # ""
        /\ ~LacksTemporal(deck[reading.drawn_cards[j].card_id])
        /\ out.card_interpretations[j].position_interpretation # ""
        /\ out.card_interpretations[j].position_interpretation #
            out.card_interpretations[j].core_essence

\* C9: the effective category of a call is the argument when one is given and the
\* reading's stored category when none is; it is what the result's question_type
\* holds and what selects the question context of every card; and the call leaves
\* reading.question_type as it was.
C9_CategoryNormalization ==
    [][/\ reading'.question_type = reading.question_type
       /\ out'.status = "ok" =>
            LET category == EffectiveCategory(args', reading)
            IN /\ out'.question_type = category
               /\ \A i \in 1..Len(out'.card_interpretations) :
                    LET ci == out'.card_interpretations[i]
                        bucket == BucketOf(deck[ci.card_id], category)
                    IN IF category \in {None, GENERAL}
                       THEN ci.question_context = None /\ ci.question_keywords = <<>>
                       ELSE /\ ci.question_context =
                                (IF ci.orientation \in DOMAIN bucket
                                 THEN bucket[ci.orientation] ELSE "")
                            /\ ci.question_keywords =
                                (IF "keywords" \in DOMAIN bucket
                                 THEN bucket.keywords ELSE <<>>)]_vars

\* an explicit "general" that overrides a stored category for which a drawn card
\* has a question context
C9_Witness ==
    /\ out.status = "ok"
    /\ args.question_type.kind = "enum"
    /\ args.question_type.value = GENERAL
    /\ reading.question_type \notin {None, GENERAL}
    /\ out.question_type = GENERAL
    /\ \E i \in 1..Len(reading.drawn_cards) :
        BucketOf(deck[reading.drawn_cards[i].card_id], reading.question_type) # EmptyDict

UnknownDrawn ==
    {i \in 1..Len(reading.drawn_cards) : reading.drawn_cards[i].card_id \notin DOMAIN deck}
\* the result is the deck's KeyError "Card not found" for a drawn card
CardNotFound(result) ==
    /\ result.status = "raised"
    /\ result.error = "KeyError"
    /\ result.message[1] = "Card not found: "
    /\ \E u \in UnknownDrawn : result.message[2] = reading.drawn_cards[u].card_id

\* C10 (as claimed): when a drawn card is unknown to the deck, assemble fails with the
\* deck's KeyError "Card not found".
C10_AsClaimed ==
    (args.called /\ UnknownDrawn # {}) => CardNotFound(out)

\* C10 (amended): when a drawn card is unknown to the deck, assemble fails and returns
\* no context, whatever include_relationships is; the failure is the deck's KeyError
\* "Card not found" when the spread is known to the registry, the category argument
\* is valid, and every drawn card before the first unknown one has a position index
\* that the spread's position list accepts.
C10_UnknownCardIsFatal ==
    (args.called /\ UnknownDrawn # {}) =>
        /\ out.status = "raised"
        /\ (/\ reading.spread_id \in DOMAIN registry
            /\ ValidCategoryArg(args)
            /\ \A i \in 1..Len(reading.drawn_cards) :
                (\A u \in UnknownDrawn : i < u) =>
                    LET n == Len(registry[reading.spread_id].positions)
                    IN /\ -n <= reading.drawn_cards[i].position_index
                       /\ reading.drawn_cards[i].position_index < n)
           => CardNotFound(out)

\* a call without the relationship scan that fails on its third card, the first two
\* being known
C10_Witness ==
    /\ args.called
    /\ ~args.include_relationships
    /\ UnknownDrawn = {3}
    /\ CardNotFound(out)

\* the drawn cards whose position index is not a zero-based index of a position
OffPosition(spread) ==
    {i \in 1..Len(reading.drawn_cards) :
        ~(/\ 0 <= reading.drawn_cards[i].position_index
          /\ reading.drawn_cards[i].position_index < Len(spread.positions))}

\* C11 (as claimed): whenever the number of drawn cards differs from the number of
\* positions of the reading's spread, or a drawn card's position_index is not a
\* zero-based index of a position, assemble fails and returns no context.
C11_AsClaimed ==
    (/\ args.called
     /\ reading.spread_id \in DOMAIN registry
     /\ \/ Len(reading.drawn_cards) # Len(registry[reading.spread_id].positions)
        \/ OffPosition(registry[reading.spread_id]) # {})
    => out.status = "raised"

\* C12 (as claimed): every assemble call returns a context or fails as data-not-found
\* (a KeyError for a card or a spread) or as a structural mismatch (an IndexError);
\* nothing else is raised, whatever the category argument is.
C12_AsClaimed ==
    args.called =>
        \/ out.status = "ok"
        \/ /\ out.status = "raised"
           /\ out.error \in {"KeyError", "IndexError"}

\* no entry is authored for the call: the path does not lead to a mapping that holds
\* the entry, and the core meaning of the orientation does not hold it either
NothingAuthored(data, segments, orientation, entry, core_entry) ==
    LET node == NodeAt(PositionTree(data), segments)
    IN IF node.ty = "dict"
       THEN <<entry>> \notin DOMAIN node.kv
       ELSE core_entry \notin DOMAIN CoreOf(data, orientation)

\* C13 (as claimed): get_interpretation never raises: for every card data, path and
\* orientation it returns a result, with an empty text where no text is authored and
\* an empty keyword list where no keywords are.
C13_AsClaimed ==
    icall.called =>
        LET data == deck[icall.card_id]
            orientation == IF icall.reversed THEN "reversed" ELSE "upright"
            segments == Split(icall.rag_mapping)
        IN /\ "error" \notin DOMAIN iout
           /\ NothingAuthored(data, segments, orientation, orientation, "essence")
                => iout.interpretation = ""
           /\ NothingAuthored(data, segments, orientation, "keywords", "keywords")
                => iout.keywords = <<>>

\* the segments of the path of the position that the i-th drawn card is drawn for;
\* a negative position index counts from the last position
SegmentsOfDrawn(i) ==
    LET positions == registry[reading.spread_id].positions
        idx == reading.drawn_cards[i].position_index
    IN Split(positions[IF idx >= 0 THEN idx + 1 ELSE Len(positions) + idx + 1].rag_mapping)

\* the reading names a spread of the registry, cards of the deck and positions of the
\* spread, and the category argument is a category
C14_Scenario ==
    /\ args.called
    /\ ValidCategoryArg(args)
    /\ reading.spread_id \in DOMAIN registry
    /\ UnknownDrawn = {}
    /\ OffPosition(registry[reading.spread_id]) = {}

\* C14: in that scenario assemble succeeds whatever content the cards lack: a text or a
\* keyword list that is authored neither at the position path nor in the core meaning is
\* empty in the output, so are the core and the question fields that are not authored,
\* and every match comes from an entry of the relationship data of its first card.
C14_PartialContentNeverFails ==
    C14_Scenario =>
        /\ out.status = "ok"
        /\ \A i \in 1..Len(reading.drawn_cards) :
            LET data == deck[reading.drawn_cards[i].card_id]
                orientation == reading.drawn_cards[i].orientation
                category == EffectiveCategory(args, reading)
                ci == out.card_interpretations[i]
            IN /\ NothingAuthored(data, SegmentsOfDrawn(i), orientation, orientation, "essence")
                    => ci.position_interpretation = ""
               /\ NothingAuthored(data, SegmentsOfDrawn(i), orientation, "keywords", "keywords")
                    => ci.position_keywords = <<>>
               /\ "essence" \notin DOMAIN CoreOf(data, orientation) => ci.core_essence = ""
               /\ "keywords" \notin DOMAIN CoreOf(data, orientation) => ci.core_keywords = <<>>
               /\ category \notin {None, GENERAL} =>
                    /\ orientation \notin DOMAIN BucketOf(data, category)
                        => ci.question_context = ""
                    /\ "keywords" \notin DOMAIN BucketOf(data, category)
                        => ci.question_keywords = <<>>
        /\ \A k \in 1..Len(out.relationships) :
            LET match == out.relationships[k]
            IN \E e \in DeclaredEntries(deck[match.card1_id]) :
                /\ e[1] = match.relationship_type
                /\ e[2] = match.card2_id
                /\ e[3] = match.interpretation

\* the scenario with a reversed card for which nothing is authored at its position and
\* whose core meaning is authored for the upright orientation only, under a category
\* that the card has no question context for, and with a match among the other cards
C14_Witness ==
    /\ C14_Scenario
    /\ out.status = "ok"
    /\ out.relationships # <<>>
    /\ \E i \in 1..Len(reading.drawn_cards) :
        LET data == deck[reading.drawn_cards[i].card_id]
        IN /\ reading.drawn_cards[i].orientation = REVERSED
           /\ NothingAuthored(data, SegmentsOfDrawn(i), REVERSED, REVERSED, "essence")
           /\ "essence" \in DOMAIN CoreOf(data, UPRIGHT)
           /\ "card_relationships" \notin DOMAIN data
           /\ EffectiveCategory(args, reading) \notin {None, GENERAL}
           /\ BucketOf(data, EffectiveCategory(args, reading)) = EmptyDict

\* C15: every match is between two cards of the reading, its card1_id is strictly
\* smaller than its card2_id (so no card is matched with itself, also when it is drawn
\* twice or names itself as a target), and its type is one of the six relationship types.
C15_MatchesAreCanonicalPairs ==
    out.status = "ok" =>
        \A k \in 1..Len(out.relationships) :
            LET match == out.relationships[k]
            IN /\ match.card1_id \in DrawnIdSet
               /\ match.card2_id \in DrawnIdSet
               /\ match.card1_id # match.card2_id
               /\ LexLess(IdChars[match.card1_id], IdChars[match.card2_id])
               /\ match.relationship_type \in
                    {"amplifies", "challenges", "clarifies", "similar_energy",
                     "opposite_energy", "learning_sequence"}

\* a result with matches, of a reading that holds twice a card that names itself as a
\* target, and a card that declares a relationship to a smaller card of the reading
C15_Witness ==
    /\ out.status = "ok"
    /\ out.relationships # <<>>
    /\ \E i, j \in 1..Len(reading.drawn_cards) :
        /\ i # j
        /\ reading.drawn_cards[i].card_id = reading.drawn_cards[j].card_id
        /\ \E e \in DeclaredEntries(deck[reading.drawn_cards[i].card_id]) :
            e[2] = reading.drawn_cards[i].card_id /\ IsAuthored(e[3])
    /\ \E c \in DrawnIdSet : \E e \in DeclaredEntries(deck[c]) :
        /\ e[2] \in DrawnIdSet
        /\ IsAuthored(e[3])
        /\ LexLess(IdChars[e[2]], IdChars[c])

\* C16: a reading that create_reading returns for a spread has one drawn card per
\* position of the spread, the i-th with position_index i and the name of the i-th
\* position, and its drawn cards are pairwise distinct cards of the deck; when the deck
\* has fewer cards than the spread has positions, create_reading raises ValueError.
C16_CreatedReadingFitsSpread ==
    (ecall.called /\ ecall.spread_id \in DOMAIN registry) =>
        LET positions == registry[ecall.spread_id].positions
        IN /\ eout.status = "ok" =>
                LET drawn == eout.reading.drawn_cards
                IN /\ Len(drawn) = Len(positions)
                   /\ \A i \in 1..Len(drawn) :
                        /\ drawn[i].position_index = i - 1
                        /\ drawn[i].position_name = positions[i].name
                        /\ \E k \in 1..Len(deck_cards) :
                            deck_cards[k].card_id = drawn[i].card_id
                   /\ \A i, j \in 1..Len(drawn) :
                        i # j => drawn[i].card_id # drawn[j].card_id
           /\ Len(deck_cards) < Len(positions) =>
                eout.status = "raised" /\ eout.error = "ValueError"

\* a reading of three cards that the shuffle did not leave in the order of the deck
C16_Witness ==
    /\ ecall.called
    /\ eout.status = "ok"
    /\ Len(eout.reading.drawn_cards) = 3
    /\ eout.reading.drawn_cards[1].card_id # deck_cards[1].card_id
    /\ eout.reading.drawn_cards[2].orientation = REVERSED

\* a mapping with none of the entries upright, reversed and keywords
LacksLeafEntries(node) ==
    /\ node.ty = "dict"
    /\ DOMAIN node.kv \cap {<<"upright">>, <<"reversed">>, <<"keywords">>} = {}

\* C17 (as claimed): when the walk over the path completes and the terminal node is a
\* string, a list or a mapping without upright, reversed and keywords entries,
\* get_interpretation gives the core meaning of the orientation (the core meanings
\* being mappings).
C17_AsClaimed ==
    (/\ icall.called
     /\ CoreIsMapping(deck[icall.card_id], IF icall.reversed THEN "reversed" ELSE "upright")
     /\ \/ Reached.ty \in {"str", "list"}
        \/ LacksLeafEntries(Reached))
    => Returned = FromCore(deck[icall.card_id], icall.reversed)

\* C18: under a category other than "general" that a drawn card has no question context
\* for, the card's question_context is the empty text and its question_keywords the
\* empty list, and its position_interpretation is what the position path gives.
C18_AbsentCategoryGivesEmptyContext ==
    (out.status = "ok" /\ EffectiveCategory(args, reading) \notin {None, GENERAL}) =>
        \A i \in 1..Len(reading.drawn_cards) :
            LET dc == reading.drawn_cards[i]
                data == deck[dc.card_id]
                ci == out.card_interpretations[i]
                node == NodeAt(PositionTree(data), SegmentsOfDrawn(i))
                expected == IF node.ty = "dict"
                            THEN FromNode(node, dc.orientation = REVERSED)
                            ELSE FromCore(data, dc.orientation = REVERSED)
            IN BucketOf(data, EffectiveCategory(args, reading)) = EmptyDict =>
                /\ ci.question_context = ""
                /\ ci.question_keywords = <<>>
                /\ ci.position_interpretation = expected.interpretation
                /\ ci.position_keywords = expected.keywords

\* a card with a core essence and a position text, and with question contexts but none
\* for the category of the call
C18_Witness ==
    /\ out.status = "ok"
    /\ EffectiveCategory(args, reading) \notin {None, GENERAL}
    /\ \E i \in 1..Len(reading.drawn_cards) :
        LET data == deck[reading.drawn_cards[i].card_id]
            ci == out.card_interpretations[i]
        IN /\ "question_contexts" \in DOMAIN data
           /\ data.question_contexts # EmptyDict
           /\ BucketOf(data, EffectiveCategory(args, reading)) = EmptyDict
           /\ ci.core_essence # ""
           /\ ci.position_interpretation # ""
           /\ ci.position_interpretation # ci.core_essence

SixTypes ==
    {"amplifies", "challenges", "clarifies", "similar_energy", "opposite_energy",
     "learning_sequence"}

\* the deck without the relationship buckets whose type is not one of the six
IsRecognized(item) == item.key \in SixTypes
WithoutUnknownBuckets(dk) ==
    [id \in DOMAIN dk |->
        IF "card_relationships" \in DOMAIN dk[id]
        THEN [dk[id] EXCEPT !.card_relationships = SelectSeq(@, IsRecognized)]
        ELSE dk[id]]

\* a drawn card has a bucket of an unknown type with an authored entry for a greater
\* card of the reading
UnknownBucketInPlay ==
    \E c \in DrawnIdSet \cap DOMAIN deck : \E e \in DeclaredEntries(deck[c]) :
        /\ e[1] \notin SixTypes
        /\ e[2] \in DrawnIdSet
        /\ IsAuthored(e[3])
        /\ LexLess(IdChars[c], IdChars[e[2]])

\* C19: a relationship bucket of an unknown type raises no error and gives no match,
\* and the matches of a result are those that the same reading gives on the deck
\* without the buckets of unknown types.
C19_UnknownBucketSkipped ==
    /\ (C14_Scenario /\ UnknownBucketInPlay) => out.status = "ok"
    /\ (out.status = "ok" /\ args.include_relationships) =>
        /\ \A k \in 1..Len(out.relationships) :
            out.relationships[k].relationship_type \in SixTypes
        /\ out.relationships = FindRelationships(reading, WithoutUnknownBuckets(deck), "seed a")

\* a result with matches, of a scan that met a bucket of an unknown type
C19_Witness ==
    /\ out.status = "ok"
    /\ args.include_relationships
    /\ UnknownBucketInPlay
    /\ out.relationships # <<>>
    /\ WithoutUnknownBuckets(deck) # deck

\* C20: the core_essence and core_keywords of every card interpretation are the essence
\* and the keywords of the card's core meaning for its drawn orientation, empty where
\* they are not authored, whether the position path resolved or not and whatever the
\* category is.
C20_CoreFieldsFollowOrientation ==
    out.status = "ok" =>
        \A i \in 1..Len(reading.drawn_cards) :
            LET dc == reading.drawn_cards[i]
                ci == out.card_interpretations[i]
            IN /\ ci.core_essence = CoreEssence(deck[dc.card_id], dc.orientation)
               /\ ci.core_keywords = CoreKeywords(deck[dc.card_id], dc.orientation)

\* under a category other than "general": a reversed card whose position path resolved
\* and whose two core meanings differ, next to a card whose path fell back to its core
C20_Witness ==
    /\ out.status = "ok"
    /\ EffectiveCategory(args, reading) \notin {None, GENERAL}
    /\ \E i, j \in 1..Len(reading.drawn_cards) :
        LET dc == reading.drawn_cards[i]
            ci == out.card_interpretations[i]
            cj == out.card_interpretations[j]
        IN /\ dc.orientation = REVERSED
           /\ ci.core_essence # ""
           /\ CoreEssence(deck[dc.card_id], UPRIGHT) # ci.core_essence
           /\ NodeAt(PositionTree(deck[dc.card_id]), SegmentsOfDrawn(i)).ty = "dict"
           /\ NodeAt(PositionTree(deck[cj.card_id]), SegmentsOfDrawn(j)).ty # "dict"
           /\ cj.core_essence # ""

\* C21 (as stated): whenever assemble accepts a reading, the i-th card
\* interpretation has position_index i (counted from 0) and carries the name and
\* the description of the i-th position of the reading's spread
C21_AsClaimed ==
    (args.called /\ out.status = "ok") =>
        \A i \in 1..Len(out.card_interpretations) :
            LET ci == out.card_interpretations[i]
                positions == registry[reading.spread_id].positions
            IN /\ ci.position_index = i - 1
               /\ i <= Len(positions)
               /\ ci.position_name = positions[i].name
               /\ ci.position_description = PositionDescription(positions[i])

\* what the last call would have returned with include_relationships = TRUE
WithRelationships(seed) ==
    AssembleResult(reading, args.question_type, TRUE, deck, registry, seed)

\* C22: a call with include_relationships = FALSE returns an empty relationships
\* list, and everything else it returns (the card interpretations, the raw
\* echoes, the metadata, or the failure raised before the scan) is what the same
\* call returns with include_relationships = TRUE
C22_ScanOnlyOnRequest ==
    (args.called /\ ~args.include_relationships) =>
        \A seed \in HashSeeds :
            LET with == WithRelationships(seed)
            IN IF out.status = "ok"
               THEN /\ out.relationships = <<>>
                    /\ with.status = "ok"
                    /\ with.card_interpretations = out.card_interpretations
                    /\ with.raw_cards_data = out.raw_cards_data
                    /\ with.reading_id = out.reading_id
                    /\ with.spread_name = out.spread_name
                    /\ with.question = out.question
                    /\ with.question_type = out.question_type
               ELSE with = out

C22_Witness ==
    /\ args.called
    /\ ~args.include_relationships
    /\ out.status = "ok"
    /\ Len(out.card_interpretations) = MaxDraw
    /\ \E seed \in HashSeeds : WithRelationships(seed).relationships # <<>>

\* C23: a call of assemble, whether it returns or raises, leaves the reading
\* (its drawn cards with their card_id, position_index and orientation, its
\* question and question_type), the deck's card data and the spread
\* definitions as they were
C23_InputsUnchanged ==
    [][/\ reading' = reading
       /\ deck_cards' = deck_cards
       /\ deck' = deck
       /\ registry' = registry]_vars

C23_Witness ==
    /\ args.called
    /\ args.question_type.kind = "str"
    /\ args.question_type.value \in QuestionType
    /\ args.question_type.value # reading.question_type
    /\ out.status = "ok"
    /\ Len(out.card_interpretations) = MaxDraw
    /\ out.relationships # <<>>

\* the (card_id, orientation) pairs of a created reading, in drawing order
DrawnPairs(result) ==
    [i \in 1..Len(result.reading.drawn_cards) |->
        <<result.reading.drawn_cards[i].card_id, result.reading.drawn_cards[i].orientation>>]

\* the number of cards create_reading asks draw for
CountOf(call) == Len(registry[call.spread_id].positions)

\* C24: two successive create_reading calls on the same deck that hand draw the
\* same non-null seed, the same count and the same allow_reversals give the same
\* sequence of (card_id, orientation) pairs; and a call with
\* allow_reversals = FALSE gives upright cards only
C24_SeededDrawRepeats ==
    [][/\ (/\ ecall.called /\ ecall'.called
           /\ eout.status = "ok" /\ eout'.status = "ok"
           /\ ecall'.seed.kind = "int"
           /\ ecall'.seed = ecall.seed
           /\ ecall'.allow_reversals = ecall.allow_reversals
           /\ CountOf(ecall') = CountOf(ecall))
          => DrawnPairs(eout') = DrawnPairs(eout)
       /\ (ecall'.called /\ eout'.status = "ok" /\ ~ecall'.allow_reversals)
          => \A i \in 1..Len(eout'.reading.drawn_cards) :
                eout'.reading.drawn_cards[i].orientation = UPRIGHT]_vars

C24_Witness ==
    /\ repeated
    /\ ecall.called
    /\ ecall.seed.kind = "int"
    /\ ecall.allow_reversals
    /\ eout.status = "ok"
    /\ Len(eout.reading.drawn_cards) = MaxDraw
    /\ \E i, j \in 1..MaxDraw :
          /\ eout.reading.drawn_cards[i].orientation = REVERSED
          /\ eout.reading.drawn_cards[j].orientation = UPRIGHT

\* a step of the assembly core: the construction of an assembler or a call of assemble
AssemblyCoreStep ==
    \/ NewAssembler
    \/ \E question_type \in QuestionTypeArgs, include_relationships \in BOOLEAN,
          seed \in HashSeeds :
          Assemble(question_type, include_relationships, seed)

\* C25: the construction of an assembler and the calls of assemble never replace
\* a default registry that is loaded, and never construct a registry when one is
\* loaded; once constructed, the assembler keeps the registry object it took at
\* construction, whatever get_spread_registry(reload=True) calls follow, and
\* assemble resolves the reading's spread in that object
C25_CoreNeverReloads ==
    [][/\ (AssemblyCoreStep /\ default_registry # NoObject)
          => (default_registry' = default_registry /\ objects' = objects)
       /\ assembler_spread_registry # NoObject
          => /\ assembler_spread_registry' = assembler_spread_registry
             /\ registry' = registry
             /\ registry = objects[assembler_spread_registry]
             /\ objects'[assembler_spread_registry] = objects[assembler_spread_registry]
       /\ \A include_relationships \in BOOLEAN :
             Assemble(QuestionTypeArg("none", None), include_relationships, "seed a")
             => out' = AssembleResult(reading, QuestionTypeArg("none", None),
                                      include_relationships, deck,
                                      objects[assembler_spread_registry], "seed a")]_vars

\* an assembler was constructed, a reload has put another registry with other
\* spreads in the place of the one it took, and assemble has resolved a created
\* reading in the spread that only the assembler's registry has
C25_Witness ==
    /\ assembler_spread_registry # NoObject
    /\ default_registry # NoObject
    /\ default_registry # assembler_spread_registry
    /\ objects[default_registry] # objects[assembler_spread_registry]
    /\ rcall.called /\ rcall.reload
    /\ args.called
    /\ out.status = "ok"
    /\ Len(out.card_interpretations) = 1
    /\ out.card_interpretations[1].position_name = "Advice"
    /\ \A i \in 1..Len(objects[default_registry]["single_card"].positions) :
          objects[default_registry]["single_card"].positions[i].name # "Advice"

\* a call of get_spread_registry by a caller, with any arguments
AnyLookup(reload) ==
    \E config_path \in ConfigPathArgs, system \in SystemArgs :
        GetSpreadRegistry(config_path, reload, system)

\* C30: once a registry is cached, a get_spread_registry call with reload=False
\* returns that very object whatever config_path and system it is given, and
\* constructs nothing; a cached registry is replaced only by a call with
\* reload=True; and what a call returns is the registry cached after it, the one
\* that later calls return
C30_CachedUntilReload ==
    [][/\ (default_registry # NoObject /\ AnyLookup(FALSE))
          => /\ rout' = [status |-> "ok", object |-> default_registry]
             /\ default_registry' = default_registry
             /\ objects' = objects
       /\ (default_registry # NoObject /\ default_registry' # default_registry)
          => /\ AnyLookup(TRUE)
             /\ default_registry' \notin 1..Len(objects)
       /\ (AnyLookup(TRUE) \/ AnyLookup(FALSE))
          => /\ rout'.status = "ok" => rout'.object = default_registry'
             /\ rout'.status # "ok" => default_registry' = default_registry
             /\ \A i \in 1..Len(objects) : objects'[i] = objects[i]]_vars

\* after a first load and a reload, a call with reload=False that names another
\* file and another system has returned the registry of the reload
C30_Witness ==
    /\ rcall.called
    /\ ~rcall.reload
    /\ rcall.config_path = "custom.json"
    /\ rcall.system = "runes"
    /\ rout = [status |-> "ok", object |-> default_registry]
    /\ default_registry = Len(CallerRegistries) + 2
    /\ objects[default_registry] = DefaultSpreads
    /\ objects[default_registry] # ConfigFiles[ConfigPath(rcall.config_path, rcall.system)]

\* the reading handed to assemble is one that create_reading returned
Created(rd) == "created_at" \in DOMAIN rd

\* C27 (as stated): a reading that an engine created, whether the engine was
\* constructed with the default registry or with a registry of the caller, is
\* assembled without a not-found or out-of-range failure, and every card
\* interpretation has the position_name of its drawn card
C27_AsClaimed ==
    (args.called /\ Created(reading)) =>
        /\ ~(out.status = "raised" /\ out.error \in {"KeyError", "IndexError"})
        /\ out.status = "ok" =>
              /\ Len(out.card_interpretations) = Len(reading.drawn_cards)
              /\ \A i \in 1..Len(out.card_interpretations) :
                    out.card_interpretations[i].position_name =
                        reading.drawn_cards[i].position_name

\* the places of the matches of the last result that name a first, b second, under t
EmittedAs(a, b, t) ==
    {k \in 1..Len(out.relationships) :
        /\ out.relationships[k].card1_id = a
        /\ out.relationships[k].card2_id = b
        /\ out.relationships[k].relationship_type = t}

\* C26: for two distinct drawn cards a < b and one of the six types t, the scan
\* emits a match (a, b, t) exactly when the data of a lists b under t with a
\* text that is neither empty nor a placeholder, and the text of the match is
\* such a text of a; nothing is emitted as (b, a, t), so what only b declares
\* toward a gives no match
C26_ScanCharacterised ==
    (out.status = "ok" /\ args.include_relationships) =>
        \A a \in DrawnIdSet, b \in DrawnIdSet, t \in SixTypes :
            (a # b /\ LexLess(IdChars[a], IdChars[b])) =>
                /\ (EmittedAs(a, b, t) # {}) <=> Declares(deck, a, t, b)
                /\ EmittedAs(b, a, t) = {}
                /\ \A k \in EmittedAs(a, b, t) :
                      \E e \in DeclaredEntries(deck[a]) :
                          /\ e[1] = t /\ e[2] = b /\ IsAuthored(e[3])
                          /\ out.relationships[k].interpretation = e[3]

\* a scan over a reading that holds a pair a < b where a declares an authored
\* text, a pair where only the larger card declares one, and a pair where the
\* smaller card's entry has no text
C26_Witness ==
    /\ out.status = "ok"
    /\ args.include_relationships
    /\ \E a \in DrawnIdSet, b \in DrawnIdSet, t \in SixTypes :
          LexLess(IdChars[a], IdChars[b]) /\ EmittedAs(a, b, t) # {}
    /\ \E a \in DrawnIdSet, b \in DrawnIdSet, t \in SixTypes :
          /\ LexLess(IdChars[a], IdChars[b])
          /\ Declares(deck, b, t, a)
          /\ ~Declares(deck, a, t, b)
    /\ \E a \in DrawnIdSet, b \in DrawnIdSet, t \in SixTypes :
          /\ LexLess(IdChars[a], IdChars[b])
          /\ \E e \in DeclaredEntries(deck[a]) : e[1] = t /\ e[2] = b /\ e[3] = <<>>

\* C28: in every context that assemble returns, a card interpretation has a
\* question_context other than None only when the context's question_type is
\* set and is not "general"; either all its card interpretations have None or
\* none has; and to_markdown renders it without reading the value of a None
\* question_type
C28_QuestionContextNeedsCategory ==
    out.status = "ok" =>
        /\ \A i \in 1..Len(out.card_interpretations) :
              out.card_interpretations[i].question_context # None
              => out.question_type \notin {None, GENERAL}
        /\ \/ \A i \in 1..Len(out.card_interpretations) :
                 out.card_interpretations[i].question_context = None
           \/ \A i \in 1..Len(out.card_interpretations) :
                 out.card_interpretations[i].question_context # None
        /\ ToMarkdown(out).status = "ok"

\* a context of several cards under a category, where to_markdown prints the
\* question context of one card and another card's is the empty text
C28_Witness ==
    /\ out.status = "ok"
    /\ out.question_type \notin {None, GENERAL}
    /\ \E i, j \in 1..Len(out.card_interpretations) :
          /\ Truthy(out.card_interpretations[i].question_context)
          /\ out.card_interpretations[j].question_context = ""
          /\ \E k \in 1..Len(ToMarkdown(out).text) :
                /\ k % 2 = 1
                /\ ToMarkdown(out).text[k] =
                      <<"**", Title[out.question_type], " Context:** ",
                        out.card_interpretations[i].question_context>>

\* the drawn cards whose position index the position list of the reading's
\* spread does not accept
OutOfRange ==
    LET n == Len(registry[reading.spread_id].positions)
    IN {i \in 1..Len(reading.drawn_cards) :
           ~(/\ -n <= reading.drawn_cards[i].position_index
             /\ reading.drawn_cards[i].position_index < n)}

\* the drawn cards that fail on their own, and the first of them
FailingCards == UnknownDrawn \cup OutOfRange
FirstFailing == CHOOSE i \in FailingCards : \A j \in FailingCards : i <= j

\* the failure of a failing card: not-found when its id is unknown, whatever its index
FailureOf(i) ==
    IF i \in UnknownDrawn
    THEN Raise("KeyError", <<"Card not found: ", reading.drawn_cards[i].card_id>>)
    ELSE Raise("IndexError", <<"list index out of range">>)

SpreadNotFound(result) ==
    /\ result.status = "raised"
    /\ result.error = "KeyError"
    /\ result.message[1] = "Spread not found: "
    /\ result.message[2] = reading.spread_id

\* C29 (as stated): an unknown spread_id fails the call before anything else,
\* with or without drawn cards; otherwise the cards are processed in order and
\* the call fails with the failure of the first failing card, which is
\* not-found when that card's id is unknown, whatever its position index; and
\* when no card fails, no not-found is raised, with or without the scan
C29_AsClaimed ==
    args.called =>
        IF reading.spread_id \notin DOMAIN registry THEN SpreadNotFound(out)
        ELSE IF FailingCards # {} THEN out = FailureOf(FirstFailing)
        ELSE ~(out.status = "raised" /\ out.error = "KeyError")

====
